---- MODULE Spec2Model ----
(***************************************************************************)
(* Edge-based V2X emergency response protocol: the coordinator's tick      *)
(* loop (run_simulation.py), the multi-hop alert relay, the CEN            *)
(* register/broadcast component (cen_broadcast.py) and the vehicle agent   *)
(* with its ant-colony reroute (vehicle.py).                               *)
(*                                                                         *)
(* Conventions                                                             *)
(*  - a vehicle id is the pair <<prefix, n>> standing for the Python       *)
(*    string prefix + str(n): <<"veh", 3>> is "veh3";                      *)
(*  - a position is a pair <<x, y>> of integers; None is <<>>;             *)
(*  - distances are compared through their squares (math.hypot is          *)
(*    monotone in the squared distance on the integer points used here).   *)
(***************************************************************************)
EXTENDS Integers, Sequences, FiniteSets, TLC

\* ------------------------------------------------------------------------
\* Program constants
\* ------------------------------------------------------------------------
V2V_COMMUNICATION_RANGE == 200
MAX_HOP_COUNT == 5
\* COLLISION_DISTANCE = 7.5, kept as twice its value to stay in the integers
COLLISION_DISTANCE_X2 == 15
CEN_INTERVAL == 10

EDGE_NODE_ORDER == <<"EdgeNode_A", "EdgeNode_D", "EdgeNode_C", "EdgeNode_I">>

EDGE_NODE_POSITIONS ==
  [e \in {"EdgeNode_A", "EdgeNode_D", "EdgeNode_C", "EdgeNode_I"} |->
     CASE e = "EdgeNode_A" -> <<30, 20>>
       [] e = "EdgeNode_D" -> <<30, 120>>
       [] e = "EdgeNode_C" -> <<200, 180>>
       [] e = "EdgeNode_I" -> <<200, 20>>]

EdgeNodeIds == DOMAIN EDGE_NODE_POSITIONS

\* ------------------------------------------------------------------------
\* Bounds of the model
\* ------------------------------------------------------------------------
\* non-ambulance vehicles "veh0" .. "veh<NumVehicles-1>"
NumVehicles == 4
\* parked ambulances "ambulance0" ..
NumAmbulances == 1
\* alert relays started in one behaviour of the relay specification
MaxAlerts == 2
\* vehicles spawned in the simulation loop (NUM_INITIAL_VEHICLES = 4 in the program)
NumLoopVehicles == 3
\* iterations of the simulation loop (MAX_STEPS = 500 in the program)
MaxSteps == 2
\* accidents registered in one behaviour of the CEN specification
MaxAccidents == 2
\* length of the existing routes handed to aco_reroute
MaxRouteLen == 2
\* simulated seconds per traci.simulationStep() (the step length of simulation.sumocfg)
StepLength == 10
\* size of the population of select_best_ambulance (POP_SIZE is 20)
PopSize == 3
\* number of generations of select_best_ambulance (GENERATIONS is 30)
Generations == 2
\* number of ant trials when aco_reroute is followed trial by trial (NUM_ANTS is 6)
NumAnts == 3

None == <<>>

Veh(n) == <<"veh", n>>
Amb(n) == <<"ambulance", n>>
Vehicles == {Veh(n) : n \in 0 .. NumVehicles - 1}
Ambulances == {Amb(n) : n \in 0 .. NumAmbulances - 1}
\* a vehicle that has left the simulation: no TraCI call knows its id
DepartedVehicle == Veh(NumVehicles)
AllIds == Vehicles \cup Ambulances \cup {DepartedVehicle}

\* vehicle_id.startswith('ambulance')
IsAmbulance(id) == id[1] = "ambulance"

\* ------------------------------------------------------------------------
\* Sequence helpers
\* ------------------------------------------------------------------------
Range(s) == {s[i] : i \in DOMAIN s}

Front(s) == SubSeq(s, 1, Len(s) - 1)

Last(s) == s[Len(s)]

\* ------------------------------------------------------------------------
\* Geometry
\* ------------------------------------------------------------------------
Dist2(p, q) == (p[1] - q[1]) * (p[1] - q[1]) + (p[2] - q[2]) * (p[2] - q[2])

\* calculate_distance(p, q) <= r, with the float('inf') of a missing position
WithinRange(p, q, r) == p # None /\ q # None /\ Dist2(p, q) <= r * r

\* ------------------------------------------------------------------------
\* State
\* ------------------------------------------------------------------------
VARIABLES
  \* traffic oracle (TraCI)
  vpos,                     \* traci.vehicle.getPosition per id, None when the id is not in the simulation
  id_list,                  \* the order of traci.vehicle.getIDList()
  sim_time,                 \* traci.simulation.getTime()
  traci_route,              \* traci.vehicle.getRoute per id
  traci_road,               \* traci.vehicle.getRoadID per id
  \* run_simulation.py globals used by the alert relay
  edge_nodes,
  message_history,
  hop_count_stats,
  successful_notifications,
  \* outcome feed: the value returned by broadcast_emergency_alert per message id
  alert_outcome,
  \* the simulation loop
  step,
  pc,                       \* the place of the loop body that runs next
  reported_collisions,
  total_accidents,
  new_collisions,
  \* cen.accidents
  accidents,
  \* vehicles_dict: id -> Vehicle
  vehicles_dict,
  \* history of what the program did
  collision_records,        \* pair -> number of new-collision records made for it (lines 330-333)
  stop_failures,            \* the vehicles for which a stop command of lines 322-329 failed
  register_calls,           \* the accident ids passed to cen.register, in call order
  register_locations,       \* the locations passed to cen.register, in call order
  reroute_runs,             \* <<vehicle, accident id>> -> number of runs of lines 50-70
  reroute_blocked,          \* <<vehicle, accident id>> -> the blocked segment passed to aco_reroute (line 60)
  route_rejections,         \* <<vehicle, accident id>> -> the vehicle's route before the reroute
                            \* and after the handler of line 69, when setRoute was rejected
  broadcast_calls,          \* <<accident id, vehicle>> for which the call of line 77 was made
  last_time_log,            \* accident id -> the values written to its last_time, in order
                            \* (register line 40, then broadcast line 87)
  last_broadcast,           \* <<the time passed to the latest call of cen.broadcast>>, <<>> before
  \* a single call of Vehicle.aco_reroute
  aco_in,
  aco_out,
  \* aco_reroute followed trial by trial
  ant_trials,               \* the trials [visited, cost] made so far, in order
  ant_best,                 \* best_route and best_cost
  pheromone,                \* the pheromone dict
  \* a single call of select_best_ambulance
  ga_in,
  ga_population,
  ga_generation,
  ga_out                    \* <<the ambulance returned, the edge bonuses of the final fitness calls>>

oracleVars == <<vpos, id_list, sim_time, traci_route, traci_road>>
relayVars == <<edge_nodes, message_history, hop_count_stats, successful_notifications, alert_outcome>>
loopVars == <<step, pc, reported_collisions, total_accidents, new_collisions>>
cenVars == <<accidents, broadcast_calls, register_calls, register_locations, last_time_log,
            last_broadcast>>
vehicleVars == <<vehicles_dict, reroute_runs, reroute_blocked, route_rejections>>
acoVars == <<aco_in, aco_out, ant_trials, ant_best, pheromone>>
gaVars == <<ga_in, ga_population, ga_generation, ga_out>>
vars == <<oracleVars, relayVars, loopVars, cenVars, vehicleVars, collision_records, stop_failures,
          acoVars, gaVars>>

\* ------------------------------------------------------------------------
\* Vehicle id strings and the order of traci.vehicle.getIDList()
\* ------------------------------------------------------------------------
RECURSIVE DecStr(_)
\* str(n): the decimal digits of n
DecStr(n) == IF n < 10 THEN <<n>> ELSE Append(DecStr(n \div 10), n % 10)

\* s < t for two digit strings, as Python compares strings
RECURSIVE DigitsLess(_, _)
DigitsLess(s, t) ==
  IF t = <<>> THEN FALSE
  ELSE IF s = <<>> THEN TRUE
  ELSE IF Head(s) # Head(t) THEN Head(s) < Head(t)
  ELSE DigitsLess(Tail(s), Tail(t))

\* id1 < id2 on the id strings ("ambulance..." sorts before "veh...")
IdLess(a, b) ==
  IF a[1] # b[1] THEN a[1] = "ambulance"
  ELSE DigitsLess(DecStr(a[2]), DecStr(b[2]))

RECURSIVE SortedIds(_)
\* the ids of a set in ascending string order
SortedIds(S) ==
  IF S = {} THEN <<>>
  ELSE LET m == CHOOSE x \in S : \A y \in S \ {x} : IdLess(x, y)
       IN <<m>> \o SortedIds(S \ {m})

RECURSIVE Reverse(_)
Reverse(s) == IF s = <<>> THEN <<>> ELSE Append(Reverse(Tail(s)), Head(s))

\* the id orders the traffic oracle is taken to answer with
IdOrders == {SortedIds(AllIds), Reverse(SortedIds(AllIds))}

\* traci.vehicle.getIDList()
getIDList == SelectSeq(id_list, LAMBDA v : vpos[v] # None)

get_vehicle_position(vehicle_id) ==
  IF vehicle_id \in Range(getIDList) THEN vpos[vehicle_id] ELSE None

\* ------------------------------------------------------------------------
\* Alert relay (run_simulation.py)
\* ------------------------------------------------------------------------
InitEdgeNode ==
  [message_cache |-> {},
   total_messages_received |-> 0,
   unique_accidents_reported |-> {},
   accident_alerts_received |-> <<>>]

initialize_edge_nodes == [e \in EdgeNodeIds |-> InitEdgeNode]

V2VMessage(message_id, source_id, message_type, payload, origin_location) ==
  [message_id |-> message_id,
   source_id |-> source_id,
   message_type |-> message_type,
   payload |-> payload,
   origin_location |-> origin_location,
   hop_count |-> 0,
   propagation_path |-> <<source_id>>,
   timestamp |-> sim_time,
   reached_edge_node |-> FALSE]

increment_hop(message, next_node) ==
  [message EXCEPT !.hop_count = @ + 1,
                  !.propagation_path = Append(@, next_node)]

\* list.sort(key=lambda x: x[1]): stable, ascending distance
InsertByDistance(sorted, x) ==
  LET k == Cardinality({i \in DOMAIN sorted : sorted[i].d2 <= x.d2})
  IN SubSeq(sorted, 1, k) \o <<x>> \o SubSeq(sorted, k + 1, Len(sorted))

RECURSIVE SortByDistance(_)
SortByDistance(s) ==
  IF s = <<>> THEN <<>>
  ELSE InsertByDistance(SortByDistance(Front(s)), Last(s))

find_vehicles_in_range(source_position, exclude_vehicle) ==
  LET ids == SelectSeq(getIDList,
               LAMBDA v : /\ v # exclude_vehicle
                          /\ ~IsAmbulance(v)
                          /\ get_vehicle_position(v) # None
                          /\ WithinRange(source_position, get_vehicle_position(v),
                                         V2V_COMMUNICATION_RANGE))
  IN SortByDistance([i \in DOMAIN ids |->
       [id |-> ids[i],
        d2 |-> Dist2(source_position, vpos[ids[i]]),
        pos |-> vpos[ids[i]]]])

find_edge_nodes_in_range(position) ==
  LET ids == SelectSeq(EDGE_NODE_ORDER,
               LAMBDA e : WithinRange(position, EDGE_NODE_POSITIONS[e],
                                      V2V_COMMUNICATION_RANGE))
  IN SortByDistance([i \in DOMAIN ids |->
       [id |-> ids[i], d2 |-> Dist2(position, EDGE_NODE_POSITIONS[ids[i]])]])

\* faulty variant of EdgeDeliveries: the loop does not return after the first delivery
EdgeDeliveriesEveryNode(message, in_range, nodes) ==
  LET fresh == SelectSeq(in_range,
                 LAMBDA e : message.message_id \notin nodes[e.id].message_cache)
  IN [i \in DOMAIN fresh |-> fresh[i].id]

\* The edge nodes of the sorted in-range list that the loop of lines 143-162
\* delivers to: it returns at the first node whose cache lacks the message id.
EdgeDeliveries(message, in_range, nodes) ==
  LET fresh == SelectSeq(in_range,
                 LAMBDA e : message.message_id \notin nodes[e.id].message_cache)
  IN IF fresh = <<>> THEN <<>> ELSE <<fresh[1].id>>

\* faulty variant of MarkReached: the flag is set on the original message
MarkReachedOriginal(history, mi) == [history EXCEPT ![1].reached_edge_node = TRUE]

\* line 159: message.reached_edge_node = True, on the object the call was
\* given, which is the object the history list holds at place mi
MarkReached(history, mi) == [history EXCEPT ![mi].reached_edge_node = TRUE]

\* faulty variant of DeliverToEdgeNode: the receipt is cached but not counted
DeliverToEdgeNodeUncounted(st, edge_id, message, mi) ==
  LET node == st.edge_nodes[edge_id]
      node1 == [node EXCEPT !.message_cache = @ \cup {message.message_id}]
  IN [edge_nodes |-> [st.edge_nodes EXCEPT ![edge_id] = node1],
      history |-> MarkReached(st.history, mi),
      hop_count_stats |-> [st.hop_count_stats EXCEPT ![message.hop_count] = @ + 1]]

\* lines 145-160 for one edge node; mi is the place of the message object in
\* its history list (the flag is set on the object the list holds)
DeliverToEdgeNode(st, edge_id, message, mi) ==
  LET alert_info == [accident_id |-> message.payload.accident_id,
                     vehicles_involved |-> message.payload.vehicles_involved,
                     location |-> message.payload.location,
                     timestamp |-> message.payload.timestamp,
                     received_at |-> sim_time,
                     hop_count |-> message.hop_count,
                     propagation_path |-> message.propagation_path]
      node == st.edge_nodes[edge_id]
      node1 == [node EXCEPT !.message_cache = @ \cup {message.message_id},
                            !.total_messages_received = @ + 1]
      node2 == IF message.message_type = "EMERGENCY"
               THEN [node1 EXCEPT
                       !.unique_accidents_reported = @ \cup {message.payload.accident_id},
                       !.accident_alerts_received = Append(@, alert_info)]
               ELSE node1
  IN [edge_nodes |-> [st.edge_nodes EXCEPT ![edge_id] = node2],
      history |-> MarkReached(st.history, mi),
      hop_count_stats |-> [st.hop_count_stats EXCEPT ![message.hop_count] = @ + 1]]

RECURSIVE DeliverAll(_, _, _, _)
DeliverAll(st, edge_ids, message, mi) ==
  IF edge_ids = <<>> THEN st
  ELSE DeliverAll(DeliverToEdgeNode(st, Head(edge_ids), message, mi),
                  Tail(edge_ids), message, mi)

\* faulty variant of InPropagationPath: the path is not consulted
InPropagationPathIgnored(message, vehicle_id) == FALSE

\* line 168: a candidate already in the propagation path is skipped
InPropagationPath(message, vehicle_id) == vehicle_id \in Range(message.propagation_path)

\* lines 170-179: the clone handed to the next vehicle
NextMessage(message, vehicle_id) ==
  increment_hop(
    [V2VMessage(message.message_id, vehicle_id, message.message_type,
                message.payload, message.origin_location)
       EXCEPT !.hop_count = message.hop_count + 1,
              !.propagation_path = message.propagation_path],
    vehicle_id)

\* faulty variant of HopLimitReached: no hop limit
HopLimitReachedNever(message) == FALSE

\* line 137
HopLimitReached(message) == message.hop_count >= MAX_HOP_COUNT

RECURSIVE propagate_v2v_message(_, _, _, _, _)
RECURSIVE PropagateToVehicles(_, _, _, _)
RECURSIVE AfterRelay(_, _, _, _)

\* returns [success, st]; st = [edge_nodes, history, hop_count_stats]
propagate_v2v_message(message, mi, current_vehicle_id, current_position, st) ==
  IF HopLimitReached(message) THEN [success |-> FALSE, st |-> st]
  ELSE
    LET deliveries == EdgeDeliveries(message, find_edge_nodes_in_range(current_position),
                                     st.edge_nodes)
    IN IF deliveries # <<>>
       THEN [success |-> TRUE, st |-> DeliverAll(st, deliveries, message, mi)]
       ELSE PropagateToVehicles(message,
                                find_vehicles_in_range(current_position, current_vehicle_id),
                                1, st)

\* the loop of lines 167-187 from candidate number k on
PropagateToVehicles(message, vehicles_in_range, k, st) ==
  IF k > Len(vehicles_in_range) THEN [success |-> FALSE, st |-> st]
  ELSE
    LET cand == vehicles_in_range[k] IN
    IF InPropagationPath(message, cand.id)
    THEN PropagateToVehicles(message, vehicles_in_range, k + 1, st)
    ELSE
      LET next_message == NextMessage(message, cand.id)
          st1 == [st EXCEPT !.history = Append(@, next_message)]
      IN AfterRelay(message, vehicles_in_range, k,
                    propagate_v2v_message(next_message, Len(st1.history), cand.id, cand.pos, st1))

AfterRelay(message, vehicles_in_range, k, r) ==
  IF r.success THEN r
  ELSE PropagateToVehicles(message, vehicles_in_range, k + 1, r.st)

\* uuid.uuid4().hex[:8] of the n-th alert: taken to be fresh for every alert
MessageId(n) == <<"EMERGENCY", n>>

ApplyRelay(message_id, r) ==
       /\ edge_nodes' = r.st.edge_nodes
       /\ hop_count_stats' = r.st.hop_count_stats
       /\ message_history' =
            [m \in DOMAIN message_history \cup {message_id} |->
               IF m = message_id THEN r.st.history ELSE message_history[m]]
       /\ successful_notifications' =
            IF r.success THEN successful_notifications + 1 ELSE successful_notifications
       /\ alert_outcome' =
            [m \in DOMAIN alert_outcome \cup {message_id} |->
               IF m = message_id THEN r.success ELSE alert_outcome[m]]

broadcast_emergency_alert(source_vehicle_id, accident_location, collision_pair, accident_id) ==
  LET source_position == get_vehicle_position(source_vehicle_id) IN
  IF source_position = None
  THEN UNCHANGED relayVars
  ELSE
    LET message_id == MessageId(Cardinality(DOMAIN message_history) + 1)
        emergency_payload == [accident_id |-> accident_id,
                              vehicles_involved |-> collision_pair,
                              location |-> accident_location,
                              severity |-> "HIGH",
                              timestamp |-> sim_time]
        message == V2VMessage(message_id, source_vehicle_id, "EMERGENCY",
                              emergency_payload, accident_location)
    IN ApplyRelay(message_id,
         propagate_v2v_message(message, 1, source_vehicle_id, source_position,
               [edge_nodes |-> edge_nodes,
                history |-> <<message>>,
                hop_count_stats |-> hop_count_stats]))

\* ------------------------------------------------------------------------
\* Road graph and ant-colony reroute (vehicle.py)
\* ------------------------------------------------------------------------
NUM_ANTS == 6
MAX_HOPS == 20

\* Python's None where a segment id is expected
NoEdge == "None"

\* the graph of run_simulation.py: node -> list of (neighbour, weight)
GRAPH_KEYS == <<"A", "B", "C", "D", "E", "F", "G", "H", "I">>

GRAPH_ADJ ==
  [n \in Range(GRAPH_KEYS) |->
     CASE n = "A" -> <<<<"B", 100>>, <<"D", 100>>>>
       [] n = "B" -> <<<<"A", 100>>, <<"C", 100>>, <<"E", 100>>>>
       [] n = "C" -> <<<<"B", 100>>, <<"F", 100>>>>
       [] n = "D" -> <<<<"A", 100>>, <<"E", 100>>, <<"G", 100>>>>
       [] n = "E" -> <<<<"B", 100>>, <<"D", 100>>, <<"F", 100>>, <<"H", 100>>>>
       [] n = "F" -> <<<<"C", 100>>, <<"E", 100>>, <<"I", 100>>>>
       [] n = "G" -> <<<<"D", 100>>, <<"H", 100>>>>
       [] n = "H" -> <<<<"G", 100>>, <<"E", 100>>, <<"I", 100>>>>
       [] n = "I" -> <<<<"F", 100>>, <<"H", 100>>>>]

\* a graph is [keys, adj]: the keys of the dict in insertion order and its values
GRAPH == [keys |-> GRAPH_KEYS, adj |-> GRAPH_ADJ]

\* graph.get(node, [])
GraphGet(graph, node) == IF node \in DOMAIN graph.adj THEN graph.adj[node] ELSE <<>>

\* [e for e in route if e != blocked_edge]
WithoutBlocked(route, blocked_edge) == SelectSeq(route, LAMBDA e : e # blocked_edge)

\* lines 104-105: the neighbours an ant may step to
AntNeighbors(graph, current, visited, blocked_edge) ==
  SelectSeq(GraphGet(graph, current),
            LAMBDA nc : nc[1] # blocked_edge /\ nc[1] \notin Range(visited))

RECURSIVE AntWalk(_, _, _, _, _, _, _)
\* lines 103-130: the trials [visited, cost] an ant can end with from the given
\* point of its walk.  Every neighbour of the list has a positive selection
\* probability (pheromone and 1/weight are positive), so the draw of line 117
\* can select any of them.
AntWalk(graph, destination, blocked_edge, current, visited, cost, hops) ==
  IF hops >= MAX_HOPS THEN {[visited |-> visited, cost |-> cost]}
  ELSE
    LET neighbors == AntNeighbors(graph, current, visited, blocked_edge) IN
    IF neighbors = <<>> THEN {[visited |-> visited, cost |-> cost]}
    ELSE UNION {
           IF neighbors[i][1] = destination
           THEN {[visited |-> Append(visited, neighbors[i][1]),
                  cost |-> cost + neighbors[i][2]]}
           ELSE AntWalk(graph, destination, blocked_edge, neighbors[i][1],
                        Append(visited, neighbors[i][1]), cost + neighbors[i][2],
                        hops + 1)
           : i \in DOMAIN neighbors}

\* lines 99-101 and 103-130: one ant trial from the current segment
AntTrials(graph, current_edge, destination, blocked_edge) ==
  AntWalk(graph, destination, blocked_edge, current_edge, <<current_edge>>, 0, 0)

\* lines 94-95: best_route = None, best_cost = inf
NoBest == [found |-> FALSE, route |-> <<>>, cost |-> 0]

\* faulty variant of KeepBest: a later trial of equal cost replaces the best
KeepBestLatest(best, trial, destination) ==
  IF Last(trial.visited) = destination /\ (~best.found \/ trial.cost <= best.cost)
  THEN [found |-> TRUE, route |-> trial.visited, cost |-> trial.cost]
  ELSE best

\* lines 132-134: a trial that ended at the destination with a lower cost
\* replaces the best route (any cost is below the initial float("inf"))
KeepBest(best, trial, destination) ==
  IF Last(trial.visited) = destination /\ (~best.found \/ trial.cost < best.cost)
  THEN [found |-> TRUE, route |-> trial.visited, cost |-> trial.cost]
  ELSE best

RECURSIVE BestAfter(_, _, _)
\* line 98: the values best_route can have after k trials
BestAfter(k, trials, destination) ==
  IF k = 0 THEN {NoBest}
  ELSE {KeepBest(b, t, destination) : b \in BestAfter(k - 1, trials, destination),
                                      t \in trials}

\* pheromone values are kept in thousandths: 1.0 is PHEROMONE_ONE
PHEROMONE_ONE == 1000
\* evaporation = 0.1
EVAPORATION == 100
\* the deposit 0.1 of line 137
DEPOSIT == 100

\* line 92: pheromone = {edge: 1.0 for edge in graph}
InitialPheromone(graph) == [n \in Range(graph.keys) |-> PHEROMONE_ONE]

\* pheromone.get(node, 1.0)
PheromoneGet(ph, node) == IF node \in DOMAIN ph THEN ph[node] ELSE PHEROMONE_ONE

\* faulty variant of PheromoneUpdate: twice the deposit
PheromoneUpdateDouble(value) ==
  ((PHEROMONE_ONE - EVAPORATION) * value) \div PHEROMONE_ONE + 2 * DEPOSIT

\* line 137: (1 - evaporation) * pheromone.get(node, 1.0) + 0.1
PheromoneUpdate(value) ==
  ((PHEROMONE_ONE - EVAPORATION) * value) \div PHEROMONE_ONE + DEPOSIT

RECURSIVE DepositOn(_, _, _)
\* lines 136-137 from the k-th visited node on
DepositOn(ph, visited, k) ==
  IF k > Len(visited) THEN ph
  ELSE DepositOn([n \in DOMAIN ph \cup {visited[k]} |->
                    IF n = visited[k] THEN PheromoneUpdate(PheromoneGet(ph, n)) ELSE ph[n]],
                 visited, k + 1)

\* faulty variant of AcoFinish: without the filter of line 147
AcoFinishUnfiltered(best, current_edge, route, blocked_edge) ==
  LET best_route == IF best.found THEN best.route
                    ELSE WithoutBlocked(route, blocked_edge)
  IN IF best_route = <<>>
     THEN [raised |-> TRUE, route |-> <<>>]
     ELSE [raised |-> FALSE,
           route |-> IF best_route[1] # current_edge
                     THEN <<current_edge>> \o best_route
                     ELSE best_route]

\* lines 139-149: fallback and post-processing.  The result is
\* [raised, route]: best_route[0] raises IndexError on an empty list.
AcoFinish(best, current_edge, route, blocked_edge) ==
  LET best_route == IF best.found THEN best.route
                    ELSE WithoutBlocked(route, blocked_edge)
  IN IF best_route = <<>>
     THEN [raised |-> TRUE, route |-> <<>>]
     ELSE [raised |-> FALSE,
           route |-> WithoutBlocked(
                       IF best_route[1] # current_edge
                       THEN <<current_edge>> \o best_route
                       ELSE best_route,
                       blocked_edge)]

\* Vehicle.aco_reroute: every result the random draws allow
aco_reroute(graph, current_edge, destination, route, blocked_edge) ==
  {AcoFinish(b, current_edge, route, blocked_edge) :
     b \in BestAfter(NUM_ANTS, AntTrials(graph, current_edge, destination, blocked_edge),
                     destination)}

\* ------------------------------------------------------------------------
\* Ambulance selection (best_erv.py)
\* ------------------------------------------------------------------------
TOURNAMENT_K == 3

\* list(ambulance_readiness.keys())
GA_AMBULANCES == <<Amb(0), Amb(1), Amb(2)>>

ambulance_readiness == (Amb(0) :> 85) @@ (Amb(1) :> 70) @@ (Amb(2) :> 90)

\* ambulance_anchor_edges; an edge id is kept as <<first character, last
\* character>>, which is all that lines 60-62 read of it
ambulance_anchor_edges ==
  (Amb(0) :> <<"A", "B">>) @@ (Amb(1) :> <<"D", "G">>) @@ (Amb(2) :> <<"H", "I">>)

\* math.sqrt of a square number
Sqrt(n) == CHOOSE r \in 0 .. 1000 : r * r = n

\* lines 56-63 of fitness(), in units of 1/200: the edge bonus of an
\* ambulance whose position is known
edge_bonus(individual, accident_edge) ==
  LET anchor_edge == ambulance_anchor_edges[individual]
  IN IF accident_edge = None THEN 0
     ELSE IF anchor_edge = accident_edge THEN 200
     ELSE IF anchor_edge[1] = accident_edge[1] \/ anchor_edge[2] = accident_edge[2] THEN 100
     ELSE 0

\* fitness(), in units of 1/200 so that every term is an integer:
\* 200 * (readiness / 100 - dist / 200 - congestion_val / 10 + edge_bonus).
\* congestion is the value of lines 45-49 per ambulance.
fitness(individual, accident, positions, accident_edge, congestion) ==
  IF individual \notin DOMAIN positions THEN -9999 * 200
  ELSE
    LET dist == Sqrt(Dist2(positions[individual], accident))
    IN 2 * ambulance_readiness[individual] - dist - 20 * congestion[individual]
         + edge_bonus(individual, accident_edge)

RECURSIVE TournamentAfter(_, _, _)
\* tournament_selection: the values of best after the first draw and k challengers
TournamentAfter(k, pop, fitnesses) ==
  IF k = 0 THEN Range(pop)
  ELSE {IF fitnesses[challenger] > fitnesses[best] THEN challenger ELSE best :
          best \in TournamentAfter(k - 1, pop, fitnesses), challenger \in Range(pop)}

tournament_selection(pop, fitnesses) == TournamentAfter(TOURNAMENT_K - 1, pop, fitnesses)

\* crossover: random.choice([parent1, parent2]) or parent1
crossover(parent1, parent2) == {parent1, parent2}

\* mutate: any ambulance id, or the individual itself
mutate(individual) == Range(GA_AMBULANCES) \cup {individual}

\* lines 100-103: the children one round of the while loop can append
Children(pop, fitnesses) ==
  UNION {mutate(child) :
           child \in UNION {crossover(p1, p2) :
                              p1 \in tournament_selection(pop, fitnesses),
                              p2 \in tournament_selection(pop, fitnesses)}}

\* the fitness of the call under way
GaFitness(ind) ==
  fitness(ind, ga_in.accident, ga_in.positions, ga_in.accident_edge, ga_in.congestion)

\* lines 96-97 and 107-108: the dict comprehension over the population
Fitnesses(pop) == [ind \in Range(pop) |-> GaFitness(ind)]

RECURSIVE DictKeys(_, _)
\* the keys of {ind: ... for ind in population}, in insertion order: the
\* individuals in the order of their first occurrence, after the keys seen
DictKeys(pop, seen) ==
  IF pop = <<>> THEN <<>>
  ELSE IF Head(pop) \in seen THEN DictKeys(Tail(pop), seen)
  ELSE <<Head(pop)>> \o DictKeys(Tail(pop), seen \cup {Head(pop)})

RECURSIVE MaxKeyLastFrom(_, _, _, _)
\* faulty variant of MaxKeyFrom: a later key of equal fitness replaces the best
MaxKeyLastFrom(keys, k, best, fitnesses) ==
  IF k > Len(keys) THEN best
  ELSE MaxKeyLastFrom(keys, k + 1,
                      IF fitnesses[keys[k]] >= fitnesses[best] THEN keys[k] ELSE best,
                      fitnesses)

RECURSIVE MaxKeyFrom(_, _, _, _)
\* line 109: max(final_fitnesses, key=final_fitnesses.get) keeps the first
\* key whose value is maximal
MaxKeyFrom(keys, k, best, fitnesses) ==
  IF k > Len(keys) THEN best
  ELSE MaxKeyFrom(keys, k + 1,
                  IF fitnesses[keys[k]] > fitnesses[best] THEN keys[k] ELSE best,
                  fitnesses)

\* the edge bonus computed by the calls of fitness at line 108, per
\* individual of known position (line 38 returns before it for the others)
FinalEdgeBonuses(pop) ==
  [ind \in Range(pop) \cap DOMAIN ga_in.positions |-> edge_bonus(ind, ga_in.accident_edge)]

\* lines 107-111
BestOfPopulation(pop) ==
  LET keys == DictKeys(pop, {})
  IN MaxKeyFrom(keys, 2, keys[1], Fitnesses(pop))

\* ------------------------------------------------------------------------
\* Python values
\* ------------------------------------------------------------------------
\* the letters of the id prefixes
Letters(prefix) ==
  CASE prefix = "veh" -> {"v", "e", "h"}
    [] prefix = "ambulance" -> {"a", "m", "b", "u", "l", "n", "c", "e"}
    [] OTHER -> {prefix}

\* the characters of an id string, each a one-character string: <<c, -1>> is
\* the letter c and <<"", d>> the digit d
Chars(id) ==
  {<<c, -1>> : c \in Letters(id[1])} \cup {<<"", d>> : d \in Range(DecStr(id[2]))}

\* an argument that is a string or a list of strings
PyStr(id) == [kind |-> "str", val |-> id]
PyList(seq) == [kind |-> "list", val |-> seq]

\* set(x): the characters of a string, the elements of a list
PySet(x) == IF x.kind = "str" THEN Chars(x.val) ELSE Range(x.val)

\* a counter per key, 0 where the key is absent
Count(f, k) == IF k \in DOMAIN f THEN f[k] ELSE 0
Increment(f, k) == [x \in DOMAIN f \cup {k} |-> IF x = k THEN Count(f, k) + 1 ELSE f[x]]

RECURSIVE SortedByNumber(_)
\* keys <<prefix, n>> in ascending n: the insertion order of accident ids and
\* of the vehicles of vehicles_dict
SortedByNumber(S) ==
  IF S = {} THEN <<>>
  ELSE LET m == CHOOSE x \in S : \A y \in S : x[2] <= y[2]
       IN <<m>> \o SortedByNumber(S \ {m})

\* ------------------------------------------------------------------------
\* Vehicle agent (vehicle.py)
\* ------------------------------------------------------------------------
Vehicle(veh_id, destination) ==
  [veh_id |-> veh_id,
   destination |-> destination,
   current_edge |-> NoEdge,
   route |-> <<>>,
   accidents_received |-> {}]

\* Vehicle.map_position_to_edge on a graph whose neighbour entries are
\* (node id, weight) with string node ids: node_pos is a string, not a tuple,
\* so dx = dy = 0 and d = 0 for every node; the first key wins the strict "<".
RECURSIVE NearestGraphNodeLast(_, _, _, _)
\* faulty variant of NearestGraphNode: a later node at the same distance wins
NearestGraphNodeLast(keys, k, have_min, nearest) ==
  IF k > Len(keys) THEN nearest
  ELSE NearestGraphNodeLast(keys, k + 1, TRUE, keys[k])

RECURSIVE NearestGraphNode(_, _, _, _)
NearestGraphNode(keys, k, have_min, nearest) ==
  IF k > Len(keys) THEN nearest
  ELSE IF ~have_min   \* 0 < float('inf')
       THEN NearestGraphNode(keys, k + 1, TRUE, keys[k])
       ELSE NearestGraphNode(keys, k + 1, have_min, nearest)   \* 0 < 0 is false

map_position_to_edge(position, graph, current_edge) ==
  LET nearest_edge == NearestGraphNode(graph.keys, 1, FALSE, NoEdge)
  IN IF nearest_edge # NoEdge THEN nearest_edge ELSE current_edge

\* Vehicle.update_position: both TraCI calls raise for an id outside the simulation
update_position(veh, route) ==
  IF vpos[veh.veh_id] = None THEN veh
  ELSE [veh EXCEPT !.current_edge = traci_road[veh.veh_id], !.route = route]

\* faulty variant of AlreadyReceived: processed accidents are not skipped
AlreadyReceivedForgotten(veh, acc_id) == FALSE

\* line 37: an accident already processed is skipped
AlreadyReceived(veh, acc_id) == acc_id \in veh.accidents_received

\* The state a run of listen calls works on:
\*   vehicles, traci_route, reroute_runs as the variables of these names,
\*   raised: an exception left listen_and_reroute.

\* lines 50-70 for one accident and one result of aco_reroute: the states
\* after it (setRoute may be rejected by the traffic oracle)
RerouteWith(ls, vid, acc_id, blocked_edge, result) ==
  LET veh == ls.vehicles[vid]
      received == [veh EXCEPT !.accidents_received = @ \cup {acc_id}]
      counted == [ls EXCEPT !.reroute_runs = Increment(@, <<vid, acc_id>>),
                            !.reroute_blocked =
                               [k \in DOMAIN @ \cup {<<vid, acc_id>>} |->
                                  IF k = <<vid, acc_id>> THEN blocked_edge ELSE @[k]]]
  IN IF result.raised
     THEN {[counted EXCEPT !.vehicles[vid] = received, !.raised = TRUE]}
     ELSE IF result.route = veh.route
     THEN {[counted EXCEPT !.vehicles[vid] = received]}
     ELSE {[counted EXCEPT !.vehicles[vid] = [received EXCEPT !.route = result.route],
                           !.traci_route[vid] = result.route],
           [counted EXCEPT !.vehicles[vid] = [received EXCEPT !.route = result.route],
                           !.route_rejections =
                              [k \in DOMAIN @ \cup {<<vid, acc_id>>} |->
                                 IF k = <<vid, acc_id>>
                                 THEN [before |-> veh.route, after |-> result.route]
                                 ELSE @[k]]]}

\* lines 35-70 for one accident
ListenOne(ls, vid, acc_id, accs, graph, comm_range) ==
  LET veh == ls.vehicles[vid]
      data == accs[acc_id]
  IN IF AlreadyReceived(veh, acc_id) THEN {ls}
     ELSE IF data.registered_by_edge \notin EdgeNodeIds THEN {ls}
     ELSE IF ~WithinRange(vpos[vid], EDGE_NODE_POSITIONS[data.registered_by_edge], comm_range)
     THEN {ls}
     ELSE LET accident_edge_actual ==
                map_position_to_edge(data.location, graph, veh.current_edge)
          IN UNION {RerouteWith(ls, vid, acc_id, accident_edge_actual, result) :
                      result \in aco_reroute(graph, veh.current_edge, veh.destination,
                                             veh.route, accident_edge_actual)}

RECURSIVE ListenLoop(_, _, _, _, _, _, _)
\* the loop of line 35 from the k-th accident on, for every state of a set
ListenLoop(states, vid, keys, k, accs, graph, comm_range) ==
  IF k > Len(keys) THEN states
  ELSE ListenLoop(
         UNION {IF ls.raised THEN {ls}
                ELSE ListenOne(ls, vid, keys[k], accs, graph, comm_range) : ls \in states},
         vid, keys, k + 1, accs, graph, comm_range)

\* Vehicle.listen_and_reroute
listen_and_reroute(ls, vid, accs, graph, comm_range) ==
  IF vpos[vid] = None THEN {ls}     \* line 31 raises, line 33 returns
  ELSE ListenLoop(
         {[ls EXCEPT !.vehicles[vid] = update_position(@, ls.traci_route[vid])]},
         vid, SortedByNumber(DOMAIN accs), 1, accs, graph, comm_range)

RECURSIVE RunListenCalls(_, _, _, _, _, _)
\* listen_and_reroute for the vehicles of a list, one after the other; an
\* exception is swallowed by the caller (cen_broadcast.py line 84) or ends the
\* loop (run_simulation.py line 367)
RunListenCalls(states, vids, accs, graph, comm_range, swallow) ==
  IF vids = <<>> THEN states
  ELSE RunListenCalls(
         UNION {IF ls.raised THEN {ls}
                ELSE {IF swallow THEN [r EXCEPT !.raised = FALSE] ELSE r :
                        r \in listen_and_reroute(ls, Head(vids), accs, graph, comm_range)}
                : ls \in states},
         Tail(vids), accs, graph, comm_range, swallow)

ListenState ==
  [vehicles |-> vehicles_dict,
   traci_route |-> traci_route,
   reroute_runs |-> reroute_runs,
   route_rejections |-> route_rejections,
   reroute_blocked |-> reroute_blocked,
   raised |-> FALSE]

\* ------------------------------------------------------------------------
\* CEN (cen_broadcast.py)
\* ------------------------------------------------------------------------
NoNode == "None"

edgecen_names(edge_id) ==
  CASE edge_id = "EdgeNode_A" -> "EdgeCEN_A"
    [] edge_id = "EdgeNode_D" -> "EdgeCEN_D"
    [] edge_id = "EdgeNode_C" -> "EdgeCEN_C"
    [] edge_id = "EdgeNode_I" -> "EdgeCEN_I"
    [] OTHER -> edge_id

RECURSIVE NearestEdgeNodeLast(_, _, _, _)
\* faulty variant of NearestEdgeNode: a later node at the same distance wins
NearestEdgeNodeLast(position, k, min_d2, nearest) ==
  IF k > Len(EDGE_NODE_ORDER) THEN nearest
  ELSE LET d2 == Dist2(position, EDGE_NODE_POSITIONS[EDGE_NODE_ORDER[k]])
       IN IF nearest = NoNode \/ d2 <= min_d2
          THEN NearestEdgeNodeLast(position, k + 1, d2, EDGE_NODE_ORDER[k])
          ELSE NearestEdgeNodeLast(position, k + 1, min_d2, nearest)

RECURSIVE NearestEdgeNode(_, _, _, _)
\* the loop of lines 22-27 from the k-th edge node on
NearestEdgeNode(position, k, min_d2, nearest) ==
  IF k > Len(EDGE_NODE_ORDER) THEN nearest
  ELSE LET d2 == Dist2(position, EDGE_NODE_POSITIONS[EDGE_NODE_ORDER[k]])
       IN IF nearest = NoNode \/ d2 < min_d2
          THEN NearestEdgeNode(position, k + 1, d2, EDGE_NODE_ORDER[k])
          ELSE NearestEdgeNode(position, k + 1, min_d2, nearest)

get_nearest_edge_node(position) == NearestEdgeNode(position, 1, 0, NoNode)

\* CENBroadcast.register: the accidents map after the call
register(accs, accident_id, location, time, vehicles_involved) ==
  LET registering_edge == get_nearest_edge_node(location)
      data == [location |-> location,
               last_time |-> time,
               registered_by_edge |-> registering_edge,
               registered_by_name |-> edgecen_names(registering_edge),
               vehicles_involved |-> PySet(vehicles_involved)]
  IN [a \in DOMAIN accs \cup {accident_id} |-> IF a = accident_id THEN data ELSE accs[a]]

\* line 38 replaces the entry of the accident id: its last_time starts anew
LogRegister(log, accident_id, time) ==
  [a \in DOMAIN log \cup {accident_id} |-> IF a = accident_id THEN <<time>> ELSE log[a]]

\* the parameters of Vehicle.listen_and_reroute (vehicle.py line 28) and the
\* keywords of the call in CENBroadcast.broadcast (cen_broadcast.py lines 77-83)
LISTEN_PARAMETERS == {"cen", "cen_positions", "graph", "comm_range"}
BROADCAST_CALL_KEYWORDS == {"cen", "cen_positions", "graph", "accident_edge", "comm_range"}

\* a keyword the callee does not have raises TypeError before its body runs
CallBinds == BROADCAST_CALL_KEYWORDS \subseteq LISTEN_PARAMETERS

\* faulty variant of BroadcastDue: every accident is processed in every sweep
BroadcastDueAlways(data, now) == TRUE

\* line 51: the accident is due
BroadcastDue(data, now) == now - data.last_time >= CEN_INTERVAL

\* faulty variant of SkipInvolved: no vehicle is skipped
SkipInvolvedNever(vid, data) == FALSE

\* line 70: involved vehicles are skipped
SkipInvolved(vid, data) == vid \in data.vehicles_involved

\* lines 69-76: the vehicles of vehicles_dict for which the call of line 77 is made
BroadcastTargets(data, vehicles, comm_range) ==
  SelectSeq(SortedByNumber(DOMAIN vehicles),
            LAMBDA vid : /\ ~SkipInvolved(vid, data)
                         /\ vpos[vid] # None      \* getPosition raises otherwise
                         /\ WithinRange(vpos[vid],
                                        EDGE_NODE_POSITIONS[data.registered_by_edge],
                                        comm_range))

\* The state a broadcast works on: accs (cen.accidents), calls
\* (broadcast_calls) and the set ls of listen states the calls can lead to.
RECURSIVE BroadcastLoop(_, _, _, _, _, _)
\* the loop of line 50 from the k-th accident on
BroadcastLoop(bs, keys, k, now, graph, comm_range) ==
  IF k > Len(keys) THEN bs
  ELSE
    LET acc_id == keys[k]
        data == bs.accs[acc_id]
    IN IF ~BroadcastDue(data, now)
       THEN BroadcastLoop(bs, keys, k + 1, now, graph, comm_range)
       ELSE
         LET targets == IF DOMAIN bs.vehicles # {}
                        THEN BroadcastTargets(data, bs.vehicles, comm_range)
                        ELSE <<>>
         IN BroadcastLoop(
              [accs |-> [bs.accs EXCEPT ![acc_id].last_time = now],
               log |-> [bs.log EXCEPT ![acc_id] = Append(@, now)],
               calls |-> bs.calls \cup {<<acc_id, targets[i]>> : i \in DOMAIN targets},
               vehicles |-> bs.vehicles,
               ls |-> IF CallBinds
                      THEN RunListenCalls(bs.ls, targets, bs.accs, graph, comm_range, TRUE)
                      ELSE bs.ls],
              keys, k + 1, now, graph, comm_range)

\* CENBroadcast.broadcast
broadcast(now, graph, comm_range) ==
  BroadcastLoop([accs |-> accidents,
                 log |-> last_time_log,
                 calls |-> broadcast_calls,
                 vehicles |-> vehicles_dict,
                 ls |-> {ListenState}],
                SortedByNumber(DOMAIN accidents), 1, now, graph, comm_range)

\* ------------------------------------------------------------------------
\* Simulation loop (run_simulation.py lines 295-374)
\* ------------------------------------------------------------------------
LoopVehicles == {Veh(n) : n \in 0 .. NumLoopVehicles - 1}

\* f"ACC_{total_accidents:03d}": one id string per number
AccId(n) == <<"ACC", n>>

\* lines 318, 320: distance < COLLISION_DISTANCE
Collides(pos1, pos2) ==
  /\ pos1 # None
  /\ pos2 # None
  /\ 4 * Dist2(pos1, pos2) < COLLISION_DISTANCE_X2 * COLLISION_DISTANCE_X2

\* faulty variant of ContinuesAfterStop: a failed stop command drops the pair
ContinuesAfterStopOnlyOnSuccess(pair, failing) ==
  pair[1] \notin failing /\ pair[2] \notin failing

\* lines 321-329: the stop commands of the two vehicles run in a try block
\* whose handler is "pass", so line 330 is reached whether they failed or not
ContinuesAfterStop(pair, failing) == TRUE

\* faulty variant of NotYetReported: reported pairs are not remembered
NotYetReportedForgotten(pair, reported) == TRUE

\* line 320: pair not in reported_collisions
NotYetReported(pair, reported) == pair \notin reported

\* lines 314-315: the pairs (vid1, vid2) in the order of the two nested loops
LoopPairs(ids) ==
  [k \in 1 .. Len(ids) * Len(ids) |->
     <<ids[((k - 1) \div Len(ids)) + 1], ids[((k - 1) % Len(ids)) + 1]>>]

RECURSIVE DetectLoop(_, _, _)
\* lines 314-333 from the k-th pair of the nested loops on;
\* ds = [reported, new, total, records, failing, failures], failing being the
\* vehicles for which the traffic oracle fails a stop command in this tick
DetectLoop(pairs, k, ds) ==
  IF k > Len(pairs) THEN ds
  ELSE
    LET vid1 == pairs[k][1]
        vid2 == pairs[k][2]
        pair == <<vid1, vid2>>     \* tuple(sorted([vid1, vid2])) when vid1 < vid2
    IN IF ~IdLess(vid1, vid2)      \* vid1 >= vid2: continue
       THEN DetectLoop(pairs, k + 1, ds)
       ELSE IF /\ Collides(vpos[vid1], vpos[vid2])
               /\ NotYetReported(pair, ds.reported)
               /\ ContinuesAfterStop(pair, ds.failing)
       THEN DetectLoop(pairs, k + 1,
              [reported |-> ds.reported \cup {pair},
               new |-> Append(ds.new, <<pair, vpos[vid1]>>),
               total |-> ds.total + 1,
               records |-> Increment(ds.records, pair),
               failing |-> ds.failing,
               failures |-> ds.failures \cup ({vid1, vid2} \cap ds.failing)])
       ELSE DetectLoop(pairs, k + 1, ds)

\* lines 336-341 from the k-th new collision on: the accident id is formatted
\* from total_accidents as it is after the detection loop
RECURSIVE RegisterLoop(_, _, _)
RegisterLoop(new, k, rs) ==
  IF k > Len(new) THEN rs
  ELSE RegisterLoop(new, k + 1,
         [accs |-> register(rs.accs, AccId(total_accidents), new[k][2], sim_time,
                            PyStr(new[k][1][1])),
          calls |-> Append(rs.calls, AccId(total_accidents)),
          locations |-> Append(rs.locations, new[k][2]),
          log |-> LogRegister(rs.log, AccId(total_accidents), sim_time)])

\* the trip the traffic oracle reports for the n-th vehicle: SUMO edge ids
SimRoute == <<"A_B", "B_C">>
SimRoad(n) == IF n % 2 = 0 THEN "A_B" ELSE "B_C"

\* one place at EdgeNode_A, one 5 m from it, one out of range of every edge node
LoopPlaces == {<<30, 20>>, <<33, 24>>, <<600, 20>>}

\* the positions the traffic oracle can report after a simulation step: the
\* inserted vehicles anywhere on the first step, then one vehicle at most
\* moves or leaves the simulation
OracleMoves ==
  IF step = 0
  THEN {vp \in [AllIds -> LoopPlaces \cup {None}] :
          /\ \A v \in LoopVehicles : vp[v] # None
          /\ \A a \in Ambulances : vp[a] = <<600, 20>>
          /\ \A v \in AllIds \ (LoopVehicles \cup Ambulances) : vp[v] = None}
  ELSE {vpos} \cup {[vpos EXCEPT ![v] = q] :
                      v \in {x \in LoopVehicles : vpos[x] # None},
                      q \in LoopPlaces \cup {None}}

\* lines 39-45 and initialize_edge_nodes()
InitRelayState ==
  /\ edge_nodes = initialize_edge_nodes
  /\ message_history = <<>>
  /\ hop_count_stats = [h \in 0 .. 2 * MAX_HOP_COUNT |-> 0]
  /\ successful_notifications = 0
  /\ alert_outcome = <<>>

\* no call of aco_reroute is followed trial by trial
AntsIdle ==
  /\ ant_trials = <<>>
  /\ ant_best = NoBest
  /\ pheromone = <<>>

\* no call of select_best_ambulance is under way
GaIdle ==
  /\ ga_in = <<>>
  /\ ga_population = <<>>
  /\ ga_generation = 0
  /\ ga_out = <<>>

InitIdle ==
  /\ InitRelayState
  /\ step = 0
  /\ pc = "idle"
  /\ reported_collisions = {}
  /\ total_accidents = 0
  /\ new_collisions = <<>>
  /\ accidents = <<>>
  /\ broadcast_calls = {}
  /\ register_calls = <<>>
  /\ register_locations = <<>>
  /\ last_time_log = <<>>
  /\ last_broadcast = <<>>
  /\ vehicles_dict = <<>>
  /\ reroute_runs = <<>>
  /\ route_rejections = <<>>
  /\ reroute_blocked = <<>>
  /\ collision_records = <<>>
  /\ stop_failures = {}

\* the state at line 296: edge nodes initialised, ambulances and the initial
\* vehicles added (departing at step 0, so not yet in the simulation)
Init ==
  /\ vpos = [v \in AllIds |-> None]
  /\ id_list \in IdOrders
  /\ sim_time = 0
  /\ traci_route = [v \in AllIds |-> SimRoute]
  /\ traci_road = [v \in AllIds |-> SimRoad(v[2])]
  /\ InitRelayState
  /\ step = 0
  /\ pc = "step"
  /\ reported_collisions = {}
  /\ total_accidents = 0
  /\ new_collisions = <<>>
  /\ accidents = <<>>
  /\ broadcast_calls = {}
  /\ register_calls = <<>>
  /\ register_locations = <<>>
  /\ last_time_log = <<>>
  /\ last_broadcast = <<>>
  /\ vehicles_dict = [v \in LoopVehicles |-> Vehicle(v, Last(SimRoute))]
  /\ reroute_runs = <<>>
  /\ route_rejections = <<>>
  /\ reroute_blocked = <<>>
  /\ collision_records = <<>>
  /\ stop_failures = {}
  /\ aco_in = <<>>
  /\ aco_out = <<>>
  /\ AntsIdle
  /\ GaIdle

\* lines 298-301 (no vehicle is spawned before step SPAWN_INTERVAL = 20)
SimulationStep ==
  /\ pc = "step"
  /\ step < MaxSteps
  /\ step' = step + 1
  /\ sim_time' = sim_time + StepLength
  /\ vpos' \in OracleMoves
  /\ id_list' \in IdOrders
  /\ pc' = "detect"
  /\ UNCHANGED <<traci_route, traci_road, relayVars, reported_collisions, total_accidents,
                 new_collisions, cenVars, vehicleVars, collision_records, stop_failures, acoVars, gaVars>>

\* line 298: the loop ends
SimulationEnd ==
  /\ pc = "step"
  /\ step >= MaxSteps
  /\ pc' = "done"
  /\ UNCHANGED <<oracleVars, relayVars, step, reported_collisions, total_accidents,
                 new_collisions, cenVars, vehicleVars, collision_records, stop_failures, acoVars, gaVars>>

DetectApply(ds) ==
  /\ reported_collisions' = ds.reported
  /\ new_collisions' = ds.new
  /\ total_accidents' = ds.total
  /\ collision_records' = ds.records
  /\ stop_failures' = ds.failures

\* lines 308-333, failing being the vehicles for which the traffic oracle
\* fails a stop command (lines 322-327) in this tick
Detect(failing) ==
  /\ pc = "detect"
  /\ DetectApply(
       DetectLoop(LoopPairs(SelectSeq(getIDList, LAMBDA v : ~IsAmbulance(v))), 1,
                  [reported |-> reported_collisions,
                   new |-> <<>>,
                   total |-> total_accidents,
                   records |-> collision_records,
                   failing |-> failing,
                   failures |-> stop_failures]))
  /\ pc' = "register"
  /\ UNCHANGED <<oracleVars, relayVars, step, cenVars, vehicleVars, acoVars, gaVars>>

\* lines 308-333 when the traffic oracle carries out every stop command.  The
\* handler of a failed stop command is "pass" (line 329): a failure changes
\* no variable of the program, and is left to DetectCollisionsStopFailing.
DetectCollisions == Detect({})

\* lines 308-333 when the traffic oracle fails the stop commands of any of
\* the vehicles
DetectCollisionsStopFailing ==
  \E failing \in SUBSET {v \in Range(getIDList) : ~IsAmbulance(v)} : Detect(failing)

RegisterApply(rs) ==
  /\ accidents' = rs.accs
  /\ register_calls' = rs.calls
  /\ register_locations' = rs.locations
  /\ last_time_log' = rs.log

\* lines 335-361: the ambulance chosen by select_best_ambulance is not used
RegisterAccidents ==
  /\ pc = "register"
  /\ RegisterApply(RegisterLoop(new_collisions, 1,
                                [accs |-> accidents, calls |-> register_calls,
                                 locations |-> register_locations, log |-> last_time_log]))
  /\ pc' = "listen"
  /\ UNCHANGED <<oracleVars, relayVars, step, reported_collisions, total_accidents,
                 new_collisions, broadcast_calls, last_broadcast, vehicleVars, collision_records, stop_failures, acoVars, gaVars>>

ListenApply(ls) ==
  /\ vehicles_dict' = ls.vehicles
  /\ traci_route' = ls.traci_route
  /\ reroute_runs' = ls.reroute_runs
  /\ route_rejections' = ls.route_rejections
  /\ reroute_blocked' = ls.reroute_blocked

\* lines 363-367
VehiclesListen ==
  /\ pc = "listen"
  /\ \E ls \in RunListenCalls({ListenState},
                 SelectSeq(SortedByNumber(DOMAIN vehicles_dict),
                           LAMBDA vid : vid \in Range(getIDList)),
                 accidents, GRAPH, V2V_COMMUNICATION_RANGE, FALSE) :
       /\ ListenApply(ls)
       /\ pc' = IF ls.raised THEN "crashed" ELSE "broadcast"
  /\ UNCHANGED <<vpos, id_list, sim_time, traci_road, relayVars, step, reported_collisions,
                 total_accidents, new_collisions, cenVars, collision_records, stop_failures, acoVars, gaVars>>

BroadcastApply(bs) ==
  /\ accidents' = bs.accs
  /\ broadcast_calls' = bs.calls
  /\ last_time_log' = bs.log
  /\ last_broadcast' = <<sim_time>>
  /\ \E ls \in bs.ls : ListenApply(ls)

\* lines 369-370
PeriodicBroadcast ==
  /\ pc = "broadcast"
  /\ BroadcastApply(broadcast(sim_time, GRAPH, V2V_COMMUNICATION_RANGE))
  /\ pc' = "step"
  /\ UNCHANGED <<vpos, id_list, sim_time, traci_road, relayVars, step, reported_collisions,
                 total_accidents, new_collisions, register_calls, register_locations, collision_records, stop_failures, acoVars, gaVars>>

Next ==
  \/ SimulationStep
  \/ SimulationEnd
  \/ DetectCollisions
  \/ RegisterAccidents
  \/ VehiclesListen
  \/ PeriodicBroadcast

Spec == Init /\ [][Next]_vars

\* the simulation loop with a traffic oracle that may fail stop commands
NextStop ==
  \/ SimulationStep
  \/ SimulationEnd
  \/ DetectCollisionsStopFailing
  \/ RegisterAccidents
  \/ VehiclesListen
  \/ PeriodicBroadcast

SpecStop == Init /\ [][NextStop]_vars

\* ------------------------------------------------------------------------
\* Specification of the CEN called on its own: register and broadcast in any
\* order, on a position snapshot, with the clock advancing between the calls
\* ------------------------------------------------------------------------
\* the trip the traffic oracle reports for the n-th vehicle: a trip over
\* segments that are nodes of the graph, a trip over SUMO edge ids, and a trip
\* that consists of the first graph key only
CenRoad(n) == CASE n % 3 = 0 -> "D" [] n % 3 = 1 -> "A_B" [] OTHER -> "A"
CenRoute(n) ==
  CASE n % 3 = 0 -> <<"D", "E", "F">>
    [] n % 3 = 1 -> <<"A_B", "B_C">>
    [] OTHER -> <<"A">>

\* where the vehicles stand: at edge node A, or 5 m from it
CenPlace(n) == IF n % 2 = 0 THEN <<30, 20>> ELSE <<33, 24>>

\* the last vehicle is next to edge node A, as far from edge node C as from
\* edge node I, far from every edge node, or not in the simulation
InitCen ==
  /\ \E last \in {<<33, 24>>, <<200, 100>>, <<600, 20>>, None} :
       vpos = [v \in AllIds |->
                 IF v \in Ambulances THEN <<600, 20>>
                 ELSE IF v \notin LoopVehicles THEN None
                 ELSE IF v[2] = NumLoopVehicles - 1 THEN last
                 ELSE CenPlace(v[2])]
  /\ id_list = SortedIds(AllIds)
  /\ sim_time = 0
  /\ traci_route = [v \in AllIds |-> CenRoute(v[2])]
  /\ traci_road = [v \in AllIds |-> CenRoad(v[2])]
  /\ InitRelayState
  /\ step = 0
  /\ pc = "idle"
  /\ reported_collisions = {}
  /\ total_accidents = 0
  /\ new_collisions = <<>>
  /\ accidents = <<>>
  /\ broadcast_calls = {}
  /\ register_calls = <<>>
  /\ register_locations = <<>>
  /\ last_time_log = <<>>
  /\ last_broadcast = <<>>
  /\ vehicles_dict = [v \in LoopVehicles |-> Vehicle(v, Last(CenRoute(v[2])))]
  /\ reroute_runs = <<>>
  /\ route_rejections = <<>>
  /\ reroute_blocked = <<>>
  /\ collision_records = <<>>
  /\ stop_failures = {}
  /\ aco_in = <<>>
  /\ aco_out = <<>>
  /\ AntsIdle
  /\ GaIdle

\* cen.register(accident_id, location, sim_time, vehicles_involved) with a
\* fresh accident id: the involved vehicles are a list of ids, as the
\* docstring of register says, or one id string, as the simulation loop passes
CenRegister(v, involved) ==
  /\ Len(register_calls) < MaxAccidents
  /\ vpos[v] # None
  /\ RegisterApply(
       [accs |-> register(accidents, AccId(Len(register_calls) + 1), vpos[v], sim_time,
                          involved),
        calls |-> Append(register_calls, AccId(Len(register_calls) + 1)),
        locations |-> Append(register_locations, vpos[v]),
        log |-> LogRegister(last_time_log, AccId(Len(register_calls) + 1), sim_time)])
  /\ UNCHANGED <<oracleVars, relayVars, loopVars, broadcast_calls, last_broadcast, vehicleVars,
                 collision_records, stop_failures, acoVars, gaVars>>

CenTick ==
  /\ step < MaxSteps
  /\ step' = step + 1
  /\ sim_time' = sim_time + StepLength
  /\ UNCHANGED <<vpos, id_list, traci_route, traci_road, relayVars, pc, reported_collisions,
                 total_accidents, new_collisions, cenVars, vehicleVars, collision_records, stop_failures,
                 acoVars, gaVars>>

\* cen.broadcast(now, vehicles_dict, graph, comm_range)
CenBroadcast ==
  /\ BroadcastApply(broadcast(sim_time, GRAPH, V2V_COMMUNICATION_RANGE))
  /\ UNCHANGED <<vpos, id_list, sim_time, traci_road, relayVars, loopVars, register_calls, register_locations,
                 collision_records, stop_failures, acoVars, gaVars>>

\* the vehicle a registration names as the second of the pair
OtherOfPair(v) == Veh((v[2] + 1) % NumLoopVehicles)

NextCen ==
  \/ \E v \in LoopVehicles :
       \E involved \in {PyStr(v), PyList(<<v, OtherOfPair(v)>>)} :
         CenRegister(v, involved)
  \/ CenTick
  \/ CenBroadcast

SpecCen == InitCen /\ [][NextCen]_vars

\* ------------------------------------------------------------------------
\* Specification of Vehicle.aco_reroute called on its own
\* ------------------------------------------------------------------------
\* the graph A-B-C with weights 1, 1
LINE_GRAPH ==
  [keys |-> <<"A", "B", "C">>,
   adj |-> [n \in {"A", "B", "C"} |->
              CASE n = "A" -> <<<<"B", 1>>>>
                [] n = "B" -> <<<<"A", 1>>, <<"C", 1>>>>
                [] n = "C" -> <<<<"B", 1>>>>]]

\* a graph with routes of different cost between A and D
WEIGHTED_GRAPH ==
  [keys |-> <<"A", "B", "C", "D">>,
   adj |-> [n \in {"A", "B", "C", "D"} |->
              CASE n = "A" -> <<<<"B", 1>>, <<"C", 5>>>>
                [] n = "B" -> <<<<"A", 1>>, <<"C", 1>>, <<"D", 4>>>>
                [] n = "C" -> <<<<"A", 5>>, <<"B", 1>>, <<"D", 1>>>>
                [] n = "D" -> <<<<"B", 4>>, <<"C", 1>>>>]]

AcoGraphs == <<GRAPH, LINE_GRAPH, WEIGHTED_GRAPH>>

\* the segments a call takes its current segment, destination and blocked
\* segment from: all nodes of the small graphs, some of the simulation's graph
AcoNodes(g) == IF g = 1 THEN {"A", "E", "I"} ELSE Range(AcoGraphs[g].keys)

RECURSIVE SeqsUpTo(_, _)
SeqsUpTo(S, n) ==
  IF n = 0 THEN {<<>>}
  ELSE SeqsUpTo(S, n - 1) \cup
       {Append(q, x) : q \in {r \in SeqsUpTo(S, n - 1) : Len(r) = n - 1}, x \in S}

AcoInputs ==
  UNION {
    UNION {
      {[graph |-> g, current_edge |-> c, destination |-> d, blocked_edge |-> b, route |-> r] :
         r \in SeqsUpTo({c, d, b}, MaxRouteLen)} :
      c \in AcoNodes(g) \cup {"A_B"}, d \in AcoNodes(g), b \in AcoNodes(g)} :
    g \in DOMAIN AcoGraphs}

InitAco ==
  /\ vpos = [v \in AllIds |-> None]
  /\ id_list = SortedIds(AllIds)
  /\ sim_time = 0
  /\ traci_route = [v \in AllIds |-> SimRoute]
  /\ traci_road = [v \in AllIds |-> SimRoad(v[2])]
  /\ InitIdle
  /\ aco_in \in AcoInputs
  /\ aco_out = <<>>
  /\ AntsIdle
  /\ GaIdle

\* one call of aco_reroute; aco_out keeps what the call did: whether it raised,
\* the route it returned, and whether an ant trial had set best_route (line 134)
AcoApply(best, result) ==
  aco_out' = <<[raised |-> result.raised, route |-> result.route, found |-> best.found]>>

AcoReroute ==
  /\ aco_out = <<>>
  /\ \E best \in BestAfter(NUM_ANTS,
                            AntTrials(AcoGraphs[aco_in.graph], aco_in.current_edge,
                                      aco_in.destination, aco_in.blocked_edge),
                            aco_in.destination) :
       AcoApply(best, AcoFinish(best, aco_in.current_edge, aco_in.route, aco_in.blocked_edge))
  /\ UNCHANGED <<oracleVars, relayVars, loopVars, cenVars, vehicleVars, collision_records, stop_failures,
                 aco_in, ant_trials, ant_best, pheromone, gaVars>>

SpecAco == InitAco /\ [][AcoReroute]_vars

\* ------------------------------------------------------------------------
\* Specification of Vehicle.aco_reroute followed trial by trial
\* ------------------------------------------------------------------------
\* a graph with two routes of the same cost between A and D, and a segment E
\* beyond D
TIE_GRAPH ==
  [keys |-> <<"A", "B", "C", "D", "E">>,
   adj |-> [n \in {"A", "B", "C", "D", "E"} |->
              CASE n = "A" -> <<<<"B", 1>>, <<"C", 1>>>>
                [] n = "B" -> <<<<"A", 1>>, <<"D", 1>>>>
                [] n = "C" -> <<<<"A", 1>>, <<"D", 1>>>>
                [] n = "D" -> <<<<"B", 1>>, <<"C", 1>>, <<"E", 1>>>>
                [] n = "E" -> <<<<"D", 1>>>>]]

AntGraphs == <<LINE_GRAPH, WEIGHTED_GRAPH, TIE_GRAPH>>

\* the calls followed: every current segment, destination and blocked segment
\* of the small graphs, a current segment that is no node of the graph, and an
\* existing route that is empty or leads to the destination
AntInputs ==
  UNION {
    UNION {
      {[graph |-> g, current_edge |-> c, destination |-> d, blocked_edge |-> b, route |-> r] :
         r \in {<<>>, <<c, d>>}} :
      c \in Range(AntGraphs[g].keys) \cup {"A_B"},
      d \in Range(AntGraphs[g].keys),
      b \in Range(AntGraphs[g].keys)} :
    g \in DOMAIN AntGraphs}

\* lines 87-96
InitAnts ==
  /\ vpos = [v \in AllIds |-> None]
  /\ id_list = SortedIds(AllIds)
  /\ sim_time = 0
  /\ traci_route = [v \in AllIds |-> SimRoute]
  /\ traci_road = [v \in AllIds |-> SimRoad(v[2])]
  /\ InitIdle
  /\ GaIdle
  /\ aco_in \in AntInputs
  /\ aco_out = <<>>
  /\ ant_trials = <<>>
  /\ ant_best = NoBest
  /\ pheromone = InitialPheromone(AntGraphs[aco_in.graph])

AntsUnchanged ==
  UNCHANGED <<oracleVars, relayVars, loopVars, cenVars, vehicleVars, collision_records,
              stop_failures, aco_in, gaVars>>

\* lines 98-137: one trial, the comparison with the best route and the deposit
AntTrial ==
  /\ Len(ant_trials) < NumAnts
  /\ \E trial \in AntTrials(AntGraphs[aco_in.graph], aco_in.current_edge,
                             aco_in.destination, aco_in.blocked_edge) :
       /\ ant_trials' = Append(ant_trials, trial)
       /\ ant_best' = KeepBest(ant_best, trial, aco_in.destination)
       /\ pheromone' = DepositOn(pheromone, trial.visited, 1)
  /\ UNCHANGED aco_out
  /\ AntsUnchanged

\* lines 139-149
AntsFinish ==
  /\ Len(ant_trials) = NumAnts
  /\ aco_out = <<>>
  /\ AcoApply(ant_best,
              AcoFinish(ant_best, aco_in.current_edge, aco_in.route, aco_in.blocked_edge))
  /\ UNCHANGED <<ant_trials, ant_best, pheromone>>
  /\ AntsUnchanged

NextAnts ==
  \/ AntTrial
  \/ AntsFinish

SpecAnts == InitAnts /\ [][NextAnts]_vars

\* ------------------------------------------------------------------------
\* Specification of select_best_ambulance called on its own
\* ------------------------------------------------------------------------
\* where an ambulance can be: at the accident, 5 m and 13 m from it
GaPlaces == {<<30, 20>>, <<33, 24>>, <<35, 32>>}

\* the accident location of the calls
GaAccident == <<30, 20>>

\* positions: the ambulances with a known position (lines 352-358 of
\* run_simulation.py); accident_edge: none, A_B, an edge D_I that starts or
\* ends as two anchor edges do, or an edge B_E that starts where the anchor
\* edge A_B ends; congestion: the query of line 46 fails for
\* every ambulance (5.0), or the estimator gives 0, 5 and 10
GaInputs ==
  {[accident |-> GaAccident, positions |-> ps, accident_edge |-> e, congestion |-> c] :
     ps \in UNION {[known -> GaPlaces] : known \in SUBSET Range(GA_AMBULANCES)},
     e \in {None, <<"A", "B">>, <<"D", "I">>, <<"B", "E">>},
     c \in {[a \in Range(GA_AMBULANCES) |-> 5], [a \in Range(GA_AMBULANCES) |-> 5 * a[2]]}}

InitGa ==
  /\ vpos = [v \in AllIds |-> None]
  /\ id_list = SortedIds(AllIds)
  /\ sim_time = 0
  /\ traci_route = [v \in AllIds |-> SimRoute]
  /\ traci_road = [v \in AllIds |-> SimRoad(v[2])]
  /\ InitIdle
  /\ aco_in = <<>>
  /\ aco_out = <<>>
  /\ AntsIdle
  /\ ga_in \in GaInputs
  /\ ga_population = <<>>
  /\ ga_generation = 0
  /\ ga_out = <<>>

GaUnchanged ==
  UNCHANGED <<oracleVars, relayVars, loopVars, cenVars, vehicleVars, collision_records,
              stop_failures, acoVars, ga_in>>

\* line 93
GaStart ==
  /\ ga_population = <<>>
  /\ ga_population' \in [1 .. PopSize -> Range(GA_AMBULANCES)]
  /\ UNCHANGED <<ga_generation, ga_out>>
  /\ GaUnchanged

\* lines 95-105: one generation
GaGeneration ==
  /\ ga_population # <<>>
  /\ ga_generation < Generations
  /\ ga_population' \in [1 .. PopSize -> Children(ga_population, Fitnesses(ga_population))]
  /\ ga_generation' = ga_generation + 1
  /\ UNCHANGED ga_out
  /\ GaUnchanged

\* lines 107-111
GaFinish ==
  /\ ga_population # <<>>
  /\ ga_generation = Generations
  /\ ga_out = <<>>
  /\ ga_out' = <<BestOfPopulation(ga_population), FinalEdgeBonuses(ga_population)>>
  /\ UNCHANGED <<ga_population, ga_generation>>
  /\ GaUnchanged

NextGa ==
  \/ GaStart
  \/ GaGeneration
  \/ GaFinish

SpecGa == InitGa /\ [][NextGa]_vars

\* ------------------------------------------------------------------------
\* Specification of the alert relay: a position snapshot, then alerts
\* ------------------------------------------------------------------------
\* One place in range of all four edge nodes (EdgeNode_C and EdgeNode_I at the
\* same distance), then a chain of places 190 apart, out of range of every
\* edge node.
RelayPlaces == {<<200, 100>>, <<390, 100>>, <<580, 100>>, <<770, 100>>}

\* the ambulances stay parked (run_simulation.py lines 251-263)
AmbulancePlace == <<390, 100>>

InitRelay ==
  /\ vpos \in [AllIds -> RelayPlaces \cup {None}]
  /\ \A v \in Vehicles : vpos[v] # None
  \* the snapshot numbers the vehicles along the road; id_list draws the tie order both ways
  /\ \A n \in 1 .. NumVehicles - 1 : vpos[Veh(n - 1)][1] <= vpos[Veh(n)][1]
  /\ \A a \in Ambulances : vpos[a] = AmbulancePlace
  /\ vpos[DepartedVehicle] = None
  /\ id_list \in IdOrders
  /\ sim_time = 0
  /\ traci_route = [v \in AllIds |-> SimRoute]
  /\ traci_road = [v \in AllIds |-> SimRoad(v[2])]
  /\ InitIdle
  /\ aco_in = <<>>
  /\ aco_out = <<>>
  /\ AntsIdle
  /\ GaIdle

Alert(source) ==
  /\ Cardinality(DOMAIN message_history) < MaxAlerts
  /\ broadcast_emergency_alert(source, vpos[source], <<source>>, AccId(1))
  /\ UNCHANGED <<oracleVars, loopVars, cenVars, vehicleVars, collision_records, stop_failures, acoVars, gaVars>>

NextRelay == \E source \in Vehicles \cup {DepartedVehicle} : Alert(source)

SpecRelay == InitRelay /\ [][NextRelay]_vars

\* ------------------------------------------------------------------------
\* Properties of the alert relay
\* ------------------------------------------------------------------------
\* every message object the relay created: the original and the clones
MessageObjects ==
  UNION {Range(message_history[m]) : m \in DOMAIN message_history}

NoDuplicates(s) == \A i, j \in DOMAIN s : i # j => s[i] # s[j]

\* C3: no message object of message_history has a propagation path in which
\* a vehicle id occurs twice (a message is never relayed to a vehicle that is
\* already in the sender's path).
C3_NoRevisit == \A msg \in MessageObjects : NoDuplicates(msg.propagation_path)

\* C3 witness: a clone was relayed twice, so at its second relay the first
\* sender was in range and in the path
C3_Witness ==
  \E msg \in MessageObjects :
    /\ Len(msg.propagation_path) >= 3
    /\ WithinRange(vpos[msg.propagation_path[1]], vpos[msg.propagation_path[2]],
                   V2V_COMMUNICATION_RANGE)

\* C4 (as claimed): the hop count of every message object of message_history
\* is at most MAX_HOP_COUNT.
C4_HopCountWithinMax == \A msg \in MessageObjects : msg.hop_count <= MAX_HOP_COUNT

\* the edge nodes whose cache holds a message id
Holders(m) == {e \in EdgeNodeIds : m \in edge_nodes[e].message_cache}

\* C6: after any relay attempt a message id is in the cache of at most one
\* edge node, the relay returned success exactly when it is in one, and the
\* delivery ended the search: the object delivered is the last one created.
C6_FirstSuccessWins ==
  \A m \in DOMAIN message_history :
    /\ Cardinality(Holders(m)) <= 1
    /\ alert_outcome[m] <=> Cardinality(Holders(m)) = 1
    /\ alert_outcome[m] =>
         /\ Last(message_history[m]).reached_edge_node
         /\ \A e \in Holders(m) :
              \E i \in DOMAIN edge_nodes[e].accident_alerts_received :
                edge_nodes[e].accident_alerts_received[i].propagation_path
                  = Last(message_history[m]).propagation_path

\* C6 witness: a message delivered after a relay, at a place with several edge
\* nodes in range, while a vehicle in range of the source was never tried
C6_Witness ==
  \E m \in DOMAIN message_history :
    /\ alert_outcome[m]
    /\ Len(message_history[m]) >= 2
    /\ LET last == Last(message_history[m])
       IN /\ Len(find_edge_nodes_in_range(vpos[last.source_id])) >= 2
          /\ \E v \in Vehicles :
               /\ v \notin Range(last.propagation_path)
               /\ WithinRange(vpos[v], vpos[message_history[m][1].source_id],
                              V2V_COMMUNICATION_RANGE)

\* ------------------------------------------------------------------------
\* Properties of the simulation loop (specification Spec)
\* ------------------------------------------------------------------------
\* the pairs (vid1, vid2), vid1 < vid2, of non-ambulance vehicles of the
\* simulation that are closer than the collision threshold
CollidingPairs ==
  {pair \in (AllIds \X AllIds) :
     /\ ~IsAmbulance(pair[1])
     /\ ~IsAmbulance(pair[2])
     /\ IdLess(pair[1], pair[2])
     /\ Collides(get_vehicle_position(pair[1]), get_vehicle_position(pair[2]))}

NewPairs == {new_collisions[i][1] : i \in DOMAIN new_collisions}

\* C1: every pair of non-ambulance vehicles seen below the collision
\* threshold yields exactly one collision record: once the detection of a tick
\* has run the pair is in reported_collisions, it was handed off in
\* new_collisions exactly once, and no later tick records it again.
C1_CollisionReportedOnce ==
  /\ DOMAIN collision_records = reported_collisions
  /\ \A pair \in DOMAIN collision_records : collision_records[pair] = 1
  /\ NewPairs \subseteq reported_collisions
  /\ NoDuplicates(new_collisions)
  /\ pc # "detect" => CollidingPairs \subseteq reported_collisions

\* C1 witness: the detection of the second tick has run on a pair that was
\* reported in the first tick and is still below the threshold
C1_Witness ==
  /\ step = 2
  /\ pc = "register"
  /\ \E pair \in CollidingPairs :
       /\ pair \in reported_collisions
       /\ pair \notin NewPairs
       /\ collision_records[pair] = 1

\* C2 (as claimed): every new collision pair is registered under an accident
\* id never used before, so no id is passed to register twice and, once the
\* registrations of a tick are done, there are as many accidents as reported
\* pairs.
C2_FreshAccidentIds ==
  /\ NoDuplicates(register_calls)
  /\ pc \notin {"detect", "register"} =>
       Cardinality(DOMAIN accidents) = Cardinality(reported_collisions)

\* C5: no step removes an accident id from a vehicle's accidents_received,
\* and the reroute of listen_and_reroute runs at most once for a vehicle and
\* an accident id.
C5_ListenOnce ==
  [][/\ \A vid \in DOMAIN vehicles_dict :
          vehicles_dict[vid].accidents_received
            \subseteq vehicles_dict'[vid].accidents_received
     /\ \A k \in DOMAIN reroute_runs' : reroute_runs'[k] <= 1]_vars

\* C5 witness: the listen step of the second tick has run for a vehicle that
\* is still in range of the registering edge node of an accident it processed
\* in the first tick
C5_Witness ==
  /\ step = 2
  /\ pc = "broadcast"
  /\ \E vid \in DOMAIN vehicles_dict, acc_id \in DOMAIN accidents :
       /\ accidents[acc_id].last_time < sim_time
       /\ accidents[acc_id].registered_by_edge \in EdgeNodeIds
       /\ vid \in Range(getIDList)
       /\ WithinRange(vpos[vid], EDGE_NODE_POSITIONS[accidents[acc_id].registered_by_edge],
                      V2V_COMMUNICATION_RANGE)
       /\ acc_id \in vehicles_dict[vid].accidents_received
       /\ Count(reroute_runs, <<vid, acc_id>>) = 1

\* C7 (as claimed): in a tick with a new collision an EMERGENCY message for
\* the accident exists, and its relay has ended, when the registrations are
\* done and the vehicles are about to listen.
C7_AlertRelayedEachTick ==
  (pc = "listen" /\ new_collisions # <<>>) =>
    \E m \in DOMAIN message_history :
      /\ m \in DOMAIN alert_outcome
      /\ message_history[m][1].payload.accident_id \in Range(register_calls)

\* ------------------------------------------------------------------------
\* Properties of the CEN (specification SpecCen)
\* ------------------------------------------------------------------------
\* the vehicles a broadcast of the accident is due to reach: not involved, in
\* range of the registering edge node, accident not yet processed
DueReceivers(acc_id) ==
  {vid \in DOMAIN vehicles_dict :
     /\ vid \notin accidents[acc_id].vehicles_involved
     /\ vpos[vid] # None
     /\ WithinRange(vpos[vid], EDGE_NODE_POSITIONS[accidents[acc_id].registered_by_edge],
                    V2V_COMMUNICATION_RANGE)
     /\ acc_id \notin vehicles_dict[vid].accidents_received}

\* C8 (as claimed): a broadcast call made when an accident is due (the call
\* that moves the accident's last_time) leaves the accident id in the
\* accidents_received of every vehicle due to receive it.
C8_BroadcastDelivers ==
  [][\A acc_id \in DOMAIN accidents :
       accidents'[acc_id].last_time # accidents[acc_id].last_time =>
         \A vid \in DueReceivers(acc_id) :
           acc_id \in vehicles_dict'[vid].accidents_received]_vars

\* C9: broadcast makes the listen call of line 77, for an accident, only on
\* vehicles that are not in the accident's stored involved set.
C9_InvolvedNeverNotified ==
  \A call \in broadcast_calls : call[2] \notin accidents[call[1]].vehicles_involved

\* C9 witness: an accident was broadcast to a vehicle while a vehicle of its
\* involved set stood in range of the registering edge node
C9_Witness ==
  \E call \in broadcast_calls :
    \E vid \in DOMAIN vehicles_dict :
      /\ vid \in accidents[call[1]].vehicles_involved
      /\ vpos[vid] # None
      /\ WithinRange(vpos[vid],
                     EDGE_NODE_POSITIONS[accidents[call[1]].registered_by_edge],
                     V2V_COMMUNICATION_RANGE)

\* ------------------------------------------------------------------------
\* Properties of aco_reroute (specification SpecAco)
\* ------------------------------------------------------------------------
\* C10: a route returned by aco_reroute contains no occurrence of the blocked
\* segment.
C10_BlockedSegmentAvoided ==
  (aco_out # <<>> /\ ~aco_out[1].raised) =>
    aco_in.blocked_edge \notin Range(aco_out[1].route)

\* C10 witness: a route was returned for a vehicle standing on the blocked
\* segment, whose existing route also contains it
C10_Witness ==
  /\ aco_out # <<>>
  /\ ~aco_out[1].raised
  /\ aco_out[1].route # <<>>
  /\ aco_in.current_edge = aco_in.blocked_edge
  /\ aco_in.blocked_edge \in Range(aco_in.route)

\* [current_edge] + best_route when best_route does not start with it (lines 143-144)
CurrentFirst(current_edge, route) ==
  IF route # <<>> /\ route[1] = current_edge THEN route ELSE <<current_edge>> \o route

\* C11 (as claimed): a route returned by aco_reroute is non-empty and starts
\* with the vehicle's current segment.
C11_StartsAtCurrentSegment ==
  (aco_out # <<>> /\ ~aco_out[1].raised) =>
    /\ aco_out[1].route # <<>>
    /\ aco_out[1].route[1] = aco_in.current_edge

\* C12 (as claimed): when no ant trial ended at the destination, the route
\* returned is the existing route without the blocked segment, with the
\* current segment put first if it was not first, and it does not include the
\* blocked segment.
C12_FallbackRoute ==
  (aco_out # <<>> /\ ~aco_out[1].raised /\ ~aco_out[1].found) =>
    /\ aco_out[1].route
         = CurrentFirst(aco_in.current_edge, WithoutBlocked(aco_in.route, aco_in.blocked_edge))
    /\ aco_in.blocked_edge \notin Range(aco_out[1].route)

\* C13 (as claimed): a call of aco_reroute in which no trial reaches the
\* destination returns a route and does not raise.
C13_NoPathNeverFatal ==
  (aco_out # <<>> /\ ~aco_out[1].found) => ~aco_out[1].raised

\* ------------------------------------------------------------------------
\* Properties of the simulation loop with failing stop commands (SpecStop)
\* ------------------------------------------------------------------------
\* the places in register_calls of the calls made in the current tick
TickCalls ==
  {i \in DOMAIN register_calls : i > Len(register_calls) - Len(new_collisions)}

\* C16: whether or not the stop commands of its vehicles failed, a colliding
\* pair is in reported_collisions once detection has run, and a newly
\* detected pair is registered in the same tick at the position sampled for
\* its first vehicle.
C16_StopFailureIgnored ==
  pc = "listen" =>
    /\ Len(register_calls) >= Len(new_collisions)
    /\ \A pair \in CollidingPairs :
         /\ pair \in reported_collisions
         /\ pair \in NewPairs =>
              \E i \in TickCalls :
                /\ register_locations[i] = vpos[pair[1]]
                /\ new_collisions[i - (Len(register_calls) - Len(new_collisions))][1] = pair
                /\ register_calls[i] \in DOMAIN accidents

\* C16 witness: in the first tick a pair was detected and registered although
\* the stop commands of both its vehicles failed
C16_Witness ==
  /\ step = 1
  /\ pc = "listen"
  /\ \E pair \in NewPairs :
       /\ pair[1] \in stop_failures
       /\ pair[2] \in stop_failures
       /\ pair \in reported_collisions
       /\ accidents # <<>>

\* ------------------------------------------------------------------------
\* Further properties of the simulation loop (specification Spec)
\* ------------------------------------------------------------------------
\* C17 (as claimed): when the traffic oracle rejected setRoute, the vehicle's
\* recorded route after the handler is the route it had before the reroute
\* was computed.
C17_RejectedRouteLeavesState ==
  \A k \in DOMAIN route_rejections :
    route_rejections[k].after = route_rejections[k].before

\* C20 (as claimed): once a newly detected pair is registered, the stored
\* involved-vehicle set of its accident is the set of the two vehicle ids of
\* the pair (stated for the pair registered last in the tick, whose record
\* is the one stored).
C20_InvolvedSetIsThePair ==
  (pc = "listen" /\ new_collisions # <<>>) =>
    LET pair == Last(new_collisions)[1]
    IN accidents[Last(register_calls)].vehicles_involved = {pair[1], pair[2]}

\* ------------------------------------------------------------------------
\* Further properties of the alert relay (specification SpecRelay)
\* ------------------------------------------------------------------------
\* C18 (as claimed): the hop count of every message object is the number of
\* relays it has undergone, len(propagation_path) - 1.
C18_HopCountIsRelayCount ==
  \A msg \in MessageObjects : msg.hop_count = Len(msg.propagation_path) - 1

RECURSIVE ReachWithin(_, _)
\* the non-ambulance vehicles a chain of at most k relays can reach from the
\* vehicles of S, consecutive vehicles being within communication range
ReachWithin(S, k) ==
  IF k = 0 THEN S
  ELSE ReachWithin(
         S \cup {v \in Vehicles :
                   /\ vpos[v] # None
                   /\ \E u \in S : WithinRange(vpos[u], vpos[v], V2V_COMMUNICATION_RANGE)},
         k - 1)

\* a chain of fewer than MAX_HOP_COUNT relays leads from the source to a
\* vehicle within communication range of an edge node
ChainToEdgeNode(source) ==
  /\ vpos[source] # None
  /\ \E v \in ReachWithin({source}, MAX_HOP_COUNT - 1) :
       find_edge_nodes_in_range(vpos[v]) # <<>>

\* C19 (as claimed): an alert whose source has a chain of fewer than
\* MAX_HOP_COUNT relays to a vehicle in range of an edge node succeeds.
C19_RelayFailsOnlyWhenForced ==
  \A m \in DOMAIN alert_outcome :
    ChainToEdgeNode(message_history[m][1].source_id) => alert_outcome[m]

\* ------------------------------------------------------------------------
\* Properties of select_best_ambulance (specification SpecGa)
\* ------------------------------------------------------------------------
\* C14 (as claimed): when exactly one ambulance has a known position, the
\* call returns that ambulance.
C14_OnlyKnownAmbulanceSelected ==
  (ga_out # <<>> /\ Cardinality(DOMAIN ga_in.positions) = 1) =>
    ga_out[1] \in DOMAIN ga_in.positions

\* the first place of an individual in the population
FirstPlace(pop, ind) == CHOOSE i \in DOMAIN pop : pop[i] = ind /\ \A j \in 1 .. i - 1 : pop[j] # ind

\* C15: the ambulance returned is a member of the final population, no
\* member has a higher fitness, and of the members of equal fitness it is the
\* one that occurs first in the population.
C15_FirstMaximalReturned ==
  ga_out # <<>> =>
    /\ ga_out[1] \in Range(ga_population)
    /\ \A i \in DOMAIN ga_population :
         /\ GaFitness(ga_population[i]) <= GaFitness(ga_out[1])
         /\ GaFitness(ga_population[i]) = GaFitness(ga_out[1]) =>
              FirstPlace(ga_population, ga_out[1]) <= i

\* C15 witness: the call returned from a final population in which two
\* different ambulances share the maximal fitness
C15_Witness ==
  /\ ga_out # <<>>
  /\ \E i, j \in DOMAIN ga_population :
       /\ i < j
       /\ ga_population[i] # ga_population[j]
       /\ GaFitness(ga_population[i]) = GaFitness(ga_population[j])
       /\ \A k \in DOMAIN ga_population :
            GaFitness(ga_population[k]) <= GaFitness(ga_population[i])

\* ------------------------------------------------------------------------
\* Properties of the notification path (specification Spec)
\* ------------------------------------------------------------------------
\* C21 (as claimed): a vehicle adds an accident id to accidents_received only
\* in a step of the periodic broadcast, and only when the accident is due:
\* at least CEN_INTERVAL after its last_time.
C21_LearnOnlyThroughSweep ==
  [][\A v \in DOMAIN vehicles_dict :
       \A acc_id \in vehicles_dict'[v].accidents_received \ vehicles_dict[v].accidents_received :
         /\ pc = "broadcast"
         /\ acc_id \in DOMAIN accidents
         /\ BroadcastDue(accidents[acc_id], sim_time)]_vars

\* ------------------------------------------------------------------------
\* Properties of the CEN (specification SpecCen)
\* ------------------------------------------------------------------------
\* the place of an edge node in the iteration order of the edge-node map
NodePlace(edge_id) == CHOOSE k \in DOMAIN EDGE_NODE_ORDER : EDGE_NODE_ORDER[k] = edge_id

\* C22: the registering node stored for an accident is an edge node at
\* minimal distance from the accident location, and of the edge nodes at that
\* distance it is the first in the iteration order of the edge-node map.
C22_NearestNodeRegisters ==
  \A acc_id \in DOMAIN accidents :
    LET data == accidents[acc_id]
        stored == data.registered_by_edge
    IN /\ stored \in EdgeNodeIds
       /\ \A e \in EdgeNodeIds :
            /\ Dist2(data.location, EDGE_NODE_POSITIONS[stored])
                 <= Dist2(data.location, EDGE_NODE_POSITIONS[e])
            /\ Dist2(data.location, EDGE_NODE_POSITIONS[stored])
                 = Dist2(data.location, EDGE_NODE_POSITIONS[e])
               => NodePlace(stored) <= NodePlace(e)

\* C22 witness: an accident is registered at a location that has two edge
\* nodes at the minimal distance
C22_Witness ==
  \E acc_id \in DOMAIN accidents :
    \E e1, e2 \in EdgeNodeIds :
      /\ e1 # e2
      /\ Dist2(accidents[acc_id].location, EDGE_NODE_POSITIONS[e1])
           = Dist2(accidents[acc_id].location, EDGE_NODE_POSITIONS[e2])
      /\ \A e \in EdgeNodeIds :
           Dist2(accidents[acc_id].location, EDGE_NODE_POSITIONS[e1])
             <= Dist2(accidents[acc_id].location, EDGE_NODE_POSITIONS[e])

\* C23: the values of an accident's last_time, registration first and then
\* one per sweep that processed it, are at least CEN_INTERVAL apart; last_time
\* is the latest of them; after a call of broadcast no accident is still due
\* at the time of that call; a registered id stays in the accidents map.
C23_SweepsAnIntervalApart ==
  /\ \A k \in DOMAIN register_calls : register_calls[k] \in DOMAIN accidents
  /\ DOMAIN last_time_log = DOMAIN accidents
  /\ \A acc_id \in DOMAIN accidents :
       LET log == last_time_log[acc_id]
       IN /\ \A i \in 1 .. Len(log) - 1 : log[i + 1] - log[i] >= CEN_INTERVAL
          /\ accidents[acc_id].last_time = log[Len(log)]
          /\ last_broadcast # <<>> =>
               ~(last_broadcast[1] - accidents[acc_id].last_time >= CEN_INTERVAL)

\* C23 witness: an accident was processed by two sweeps
C23_Witness ==
  \E acc_id \in DOMAIN accidents : Len(last_time_log[acc_id]) >= 3

\* the end nodes of a segment
EndNodes(edge) == {edge[1], edge[2]}

\* C24 (as claimed): the edge bonus is 1.0 when the anchor segment is the
\* accident segment, 0.5 when the two differ and have an end node in common,
\* whatever its position, and 0 otherwise or without an accident segment
\* (values in units of 1/200).
C24_EdgeBonusBySharedNode ==
  ga_out # <<>> =>
    \A ind \in DOMAIN ga_out[2] :
      ga_out[2][ind] =
        IF ga_in.accident_edge = None THEN 0
        ELSE IF ambulance_anchor_edges[ind] = ga_in.accident_edge THEN 200
        ELSE IF EndNodes(ambulance_anchor_edges[ind]) \cap EndNodes(ga_in.accident_edge) # {}
        THEN 100
        ELSE 0

\* ------------------------------------------------------------------------
\* Properties of the ant trials (specification SpecAnts)
\* ------------------------------------------------------------------------
\* the trials that ended at the destination, by their place in the call
EndedAtDestination == {i \in DOMAIN ant_trials : Last(ant_trials[i].visited) = aco_in.destination}

\* the earliest of the cheapest trials that ended at the destination
BestTrial ==
  CHOOSE i \in EndedAtDestination :
    \A j \in EndedAtDestination :
      \/ ant_trials[i].cost < ant_trials[j].cost
      \/ ant_trials[i].cost = ant_trials[j].cost /\ i <= j

\* graph.get(a, []) has an entry for b
IsEdge(graph, a, b) == \E i \in DOMAIN GraphGet(graph, a) : GraphGet(graph, a)[i][1] = b

\* C25: when the current segment is not the blocked one and a trial ended at
\* the destination, the call returns the visited sequence of the earliest of
\* the cheapest such trials; it starts at the current segment, ends at the
\* destination, repeats no segment and follows edges of the graph.
C25_CheapestTrialReturned ==
  (/\ aco_out # <<>>
   /\ aco_in.current_edge # aco_in.blocked_edge
   /\ EndedAtDestination # {}) =>
     LET route == aco_out[1].route
     IN /\ ~aco_out[1].raised
        /\ route = ant_trials[BestTrial].visited
        /\ route[1] = aco_in.current_edge
        /\ Last(route) = aco_in.destination
        /\ NoDuplicates(route)
        /\ \A k \in 1 .. Len(route) - 1 :
             IsEdge(AntGraphs[aco_in.graph], route[k], route[k + 1])

\* C25 witness: the call returned after two trials of the same, lowest cost
\* ended at the destination over different segments
C25_Witness ==
  /\ aco_out # <<>>
  /\ aco_in.current_edge # aco_in.blocked_edge
  /\ \E i, j \in EndedAtDestination :
       /\ i < j
       /\ ant_trials[i].visited # ant_trials[j].visited
       /\ ant_trials[i].cost = ant_trials[j].cost
       /\ \A k \in EndedAtDestination : ant_trials[i].cost <= ant_trials[k].cost

\* C28: after every trial the pheromone of every node is the initial 1.0.
C28_PheromoneStaysOne ==
  /\ Range(AntGraphs[aco_in.graph].keys) \subseteq DOMAIN pheromone
  /\ \A n \in DOMAIN pheromone : pheromone[n] = PHEROMONE_ONE

\* C28 witness: a trial that walked over at least three segments has made
\* its deposit, and a later trial has run
C28_Witness ==
  /\ Len(ant_trials) >= 2
  /\ Len(ant_trials[1].visited) >= 3

\* ------------------------------------------------------------------------
\* Further properties of the alert relay (specification SpecRelay)
\* ------------------------------------------------------------------------
\* C26: every relay attempt has returned true or false in the step that
\* created its message; the recursion is bounded: a message object is
\* relayed over at most MAX_HOP_COUNT vehicles and over no more vehicles than
\* there are, and an object that has reached the hop limit is neither
\* delivered nor relayed further.
C26_RelayTerminates ==
  /\ DOMAIN alert_outcome = DOMAIN message_history
  /\ \A m \in DOMAIN message_history :
       /\ alert_outcome[m] \in BOOLEAN
       /\ \A i \in DOMAIN message_history[m] :
            LET message == message_history[m][i]
            IN /\ Len(message.propagation_path) - 1 <= MAX_HOP_COUNT
               /\ Len(message.propagation_path) <= Cardinality(Vehicles)
               /\ message.hop_count >= MAX_HOP_COUNT =>
                    /\ ~message.reached_edge_node
                    /\ \A j \in DOMAIN message_history[m] :
                         Len(message_history[m][j].propagation_path)
                           > Len(message.propagation_path) =>
                         SubSeq(message_history[m][j].propagation_path, 1,
                                Len(message.propagation_path)) # message.propagation_path

\* C26 witness: an attempt has returned in which a message object reached the
\* hop limit while standing in range of an edge node
C26_Witness ==
  \E m \in DOMAIN alert_outcome :
    \E i \in DOMAIN message_history[m] :
      /\ message_history[m][i].hop_count >= MAX_HOP_COUNT
      /\ find_edge_nodes_in_range(vpos[Last(message_history[m][i].propagation_path)]) # <<>>

\* ------------------------------------------------------------------------
\* Further properties of the simulation loop (specification Spec)
\* ------------------------------------------------------------------------
\* Python's order of tuples of id strings
PairLess(p, q) == IdLess(p[1], q[1]) \/ (p[1] = q[1] /\ IdLess(p[2], q[2]))

\* C27 (as claimed): the new collision records of a tick are in
\* lexicographic order of their vehicle-id pairs, whatever the order in which
\* the traffic oracle lists the vehicles.
C27_RecordsInPairOrder ==
  \A i, j \in DOMAIN new_collisions :
    i < j => PairLess(new_collisions[i][1], new_collisions[j][1])

CountersAgree(node) ==
  /\ node.total_messages_received = Cardinality(node.message_cache)
  /\ node.total_messages_received = Len(node.accident_alerts_received)

\* a step delivers an EMERGENCY message with an id not yet cached to the edge
\* node, or leaves the node's receipt counters as they are
DeliveryOrNothing(e) ==
  \/ /\ edge_nodes'[e].message_cache = edge_nodes[e].message_cache
     /\ edge_nodes'[e].total_messages_received = edge_nodes[e].total_messages_received
     /\ edge_nodes'[e].accident_alerts_received = edge_nodes[e].accident_alerts_received
  \/ \E m \in DOMAIN message_history' :
       /\ m \notin edge_nodes[e].message_cache
       /\ message_history'[m][1].message_type = "EMERGENCY"
       /\ edge_nodes'[e].message_cache = edge_nodes[e].message_cache \cup {m}
       /\ edge_nodes'[e].total_messages_received = edge_nodes[e].total_messages_received + 1
       /\ Front(edge_nodes'[e].accident_alerts_received) = edge_nodes[e].accident_alerts_received
       /\ Last(edge_nodes'[e].accident_alerts_received).accident_id
            = message_history'[m][1].payload.accident_id

\* C30: for every edge node total_messages_received is the size of
\* message_cache and the length of accident_alerts_received, in every state;
\* the three change only by the delivery of an EMERGENCY message whose id the
\* node has not cached, and message_cache loses no element.
C30_ReceiptCountersAgree ==
  /\ [](\A e \in EdgeNodeIds : CountersAgree(edge_nodes[e]))
  /\ [][\A e \in EdgeNodeIds :
          /\ edge_nodes[e].message_cache \subseteq edge_nodes'[e].message_cache
          /\ DeliveryOrNothing(e)]_vars

\* C30 witness: an edge node has received two messages
C30_Witness ==
  \E e \in EdgeNodeIds : edge_nodes[e].total_messages_received >= 2

\* ------------------------------------------------------------------------
\* The reached_edge_node flag over a message's history
\* ------------------------------------------------------------------------
\* the places of a message's history whose object has the flag set
Flagged(m) ==
  {i \in DOMAIN message_history[m] : message_history[m][i].reached_edge_node}

\* the alert an edge node appended during the step, if it appended one
NewAlerts ==
  {a \in UNION {Range(edge_nodes'[e].accident_alerts_received) : e \in EdgeNodeIds} :
     \E e \in EdgeNodeIds :
       edge_nodes'[e].accident_alerts_received
         = Append(edge_nodes[e].accident_alerts_received, a)}

\* the flags of the history an alert step has just written
FlagsOfNewHistory(m) ==
  LET history == message_history'[m]
      flagged == {i \in DOMAIN history : history[i].reached_edge_node}
  IN IF alert_outcome'[m]
     THEN /\ Cardinality(flagged) = 1
          /\ Cardinality(NewAlerts) = 1
          /\ \A i \in flagged : \A a \in NewAlerts :
               /\ a.propagation_path = history[i].propagation_path
               /\ a.hop_count = history[i].hop_count
               /\ Len(a.propagation_path) >= 2 => ~history[1].reached_edge_node
     ELSE flagged = {} /\ NewAlerts = {}

\* C31: after a successful alert relay exactly one message object of the
\* message's history has reached_edge_node set, and it is the object the edge
\* node delivery was made with (the edge node recorded its hop count and its
\* path); when the delivery came after at least one vehicle relay the original
\* message of broadcast_emergency_alert still has the flag false; after a
\* failed relay no object of the history has the flag set. The flags of a
\* history do not change once its relay has returned.
C31_OneObjectFlagged ==
  /\ [](\A m \in DOMAIN message_history :
          Cardinality(Flagged(m)) = IF alert_outcome[m] THEN 1 ELSE 0)
  /\ [][\A m \in DOMAIN message_history' :
          IF m \in DOMAIN message_history
          THEN message_history'[m] = message_history[m]
          ELSE FlagsOfNewHistory(m)]_vars

\* C31 witness: one alert was delivered after a vehicle relay and after a
\* branch of the relay had failed (its history holds a clone that is not on
\* the delivered path), and another alert failed after at least one relay
C31_Witness ==
  \E m, f \in DOMAIN message_history :
    /\ alert_outcome[m]
    /\ Len(message_history[m]) >= 3
    /\ Last(message_history[m]).hop_count >= 1
    /\ \E i \in DOMAIN message_history[m] :
         message_history[m][i].source_id \notin Range(Last(message_history[m]).propagation_path)
    /\ ~alert_outcome[f]
    /\ Len(message_history[f]) >= 2

====
